---- MODULE Spec2Model ----
(***************************************************************************)
(* Chat history persistence: ChatHistoryManager (facade) over the          *)
(* flat-file store, PostgreSQLBackend and RedisBackend                     *)
(* (src/chat_history_manager.py).                                          *)
(*                                                                         *)
(* One behaviour is one process lifetime of one ChatHistoryManager: the    *)
(* constructor picks the mode, then a single synchronous caller issues     *)
(* list / get / save / delete calls.  The environment lets time pass       *)
(* (cache TTLs run down, days go by), makes single Redis or PostgreSQL     *)
(* calls raise, and may kill the process in the middle of a flat-file      *)
(* save.                                                                   *)
(***************************************************************************)
EXTENDS Integers, Sequences, FiniteSets, TLC

VARIABLES
    mode,             \* self.mode
    cache_available,  \* RedisBackend.is_available(): redis_client is not None
    pg,               \* PostgreSQL: [conversations: rows, messages: rows]
    redis,            \* Redis: [zset: user -> members, list: id -> values, ttl: key -> left]
    fs,               \* .chat_history/: file name -> content
    local_save,       \* flat-file save in progress (position inside save_conversation)
    now,              \* wall clock, in days
    nops,             \* number of facade calls made so far
    faults_left,      \* calls in which a PostgreSQL or Redis command may still raise
    last,             \* the last facade call and what it returned
    before,           \* the stores as they were when the last facade call began
    pool_used,        \* PostgreSQLBackend.pool: the connections that are checked out
    backend_call,     \* the PostgreSQLBackend method in progress (position inside it)
    since_commit,     \* TTL ticks since a save or a delete last changed the tables
    session,          \* st.session_state of the browser session (app.py)
    constructor,      \* ChatHistoryManager.__init__: its arguments, position and result
    threads           \* two calls that run at a time: the position and the locals of each

config == <<mode, cache_available, constructor>>
\* the connection pool and the backend method that holds a connection of it
pool == <<pool_used, backend_call>>
vars == <<mode, cache_available, pg, redis, fs, local_save, now, nops, faults_left,
          last, before, pool_used, backend_call, since_commit, session, constructor,
          threads>>

---------------------------------------------------------------------------
(* Bounds of the model *)

\* facade calls per behaviour
MaxOps == 2
\* longest message list of a saved document
MaxMsgs == 2
\* the clock stops at day MaxDay
MaxDay == 2
\* calls per behaviour in which a PostgreSQL or Redis command raises
MaxFaults == 1

(* Constructor parameters of ChatHistoryManager, in the model's clock units *)

\* history_days: retention window of list_conversations, in days
HistoryDays == 1
\* redis_ttl: life of a cache key, in TTL ticks
RedisTtl == 2

---------------------------------------------------------------------------
(* Values *)

Users == {"userA", "userB"}
\* user_id = None or "": "not user_id" is true
NoUser == ""
Ids == {"c1", "c2"}
Modes == {"local", "postgres", "redis"}

\* Byte order of the conversation ids (sorted(paths), and the tie order of ZREVRANGE)
IdRank(cid) == IF cid = "c1" THEN 1 ELSE 2

(* ISO-8601 strings.  "iso" is the spelling datetime.isoformat() produces for *)
(* an instant; "offset" is another valid spelling of the same instant (a      *)
(* different UTC offset); "bad" is a string datetime.fromisoformat rejects.   *)
Iso(t) == [inst |-> t, form |-> "iso"]
Offset(t) == [inst |-> t, form |-> "offset"]
BadTime == [inst |-> 0, form |-> "bad"]

\* a key the document does not have
Absent == [inst |-> 0, form |-> "absent"]

\* datetime.fromisoformat(s): raises ValueError on a bad string
fromisoformat_raises(s) == s.form = "bad"
fromisoformat(s) == s.inst
\* datetime.isoformat() of a stored timestamp
isoformat(t) == Iso(t)

\* dict.get(key, datetime.now(timezone.utc).isoformat()) of a timestamp key
get_or_now(value) == IF value = Absent THEN isoformat(now) ELSE value

\* Python None, and the results of a facade call
None == [kind |-> "none"]
Returned(v) == [kind |-> "value", value |-> v]
ReturnedList(items) == [kind |-> "list", items |-> items]
Raised(exc) == [kind |-> "raised", exc |-> exc]
Done == [kind |-> "done"]

(* Messages and documents a caller passes to save_conversation *)
MsgHi == [role |-> "user", content |-> "Hi", time |-> Iso(1)]
MsgHello == [role |-> "assistant", content |-> "Hello!", time |-> Iso(1)]
\* a message whose "time" does not parse
MsgBadTime == [role |-> "user", content |-> "Hi", time |-> BadTime]

\* a chat of MaxMsgs messages: the user and the assistant take turns
Chat == [i \in 1..MaxMsgs |-> IF i % 2 = 1 THEN MsgHi ELSE MsgHello]

\* the message lists of the documents: every stretch of the chat (its prefixes are
\* the chat as it grows, the others are histories cut or rewritten from the front)
MsgLists == {SubSeq(Chat, i, j) : i \in 1..(MaxMsgs + 1), j \in 0..MaxMsgs}

\* title, model, created_at and last_modified of a document: a new chat; the chat
\* renamed, with another model, modified later; and the same with another created_at
\* and a last_modified that is not spelled as isoformat() spells it
Metas ==
    {[title |-> "New chat", model |-> "gpt-4o-mini",
      created_at |-> Iso(0), last_modified |-> Iso(0)],
     [title |-> "Hi", model |-> "gpt-4o",
      created_at |-> Iso(0), last_modified |-> Iso(1)],
     [title |-> "Hi", model |-> "gpt-4o",
      created_at |-> Iso(1), last_modified |-> Offset(1)]}

Document(meta, messages) ==
    [title |-> meta.title, model |-> meta.model, messages |-> messages,
     created_at |-> meta.created_at, last_modified |-> meta.last_modified]

\* a document whose second message has a "time" that does not parse
BadDoc ==
    Document([title |-> "Hi", model |-> "gpt-4o",
              created_at |-> Iso(0), last_modified |-> Iso(1)], <<MsgHi, MsgBadTime>>)

\* a document without the key "created_at"
NoCreatedAtDoc ==
    Document([title |-> "Hi", model |-> "gpt-4o",
              created_at |-> Absent, last_modified |-> Iso(1)], <<MsgHi>>)

Docs == {Document(meta, ms) : meta \in Metas, ms \in MsgLists} \cup {BadDoc, NoCreatedAtDoc}

NoDoc == [kind |-> "nodoc"]

---------------------------------------------------------------------------
(* PostgreSQLBackend *)

EmptyDb == [conversations |-> {}, messages |-> {}]

\* the sequences that list rows ORDER BY last_modified DESC (equal rows in any order)
RECURSIVE RowsByModifiedDesc(_)
RowsByModifiedDesc(rows) ==
    IF rows = {} THEN {<<>>}
    ELSE UNION {{<<x>> \o t : t \in RowsByModifiedDesc(rows \ {x})} :
                    x \in {y \in rows : \A z \in rows : y.last_modified >= z.last_modified}}

\* PostgreSQLBackend.list_conversations: the result sets the query can return
\* (ORDER BY last_modified DESC leaves the order of equal rows open)
PostgreSQLBackend_list_conversations(db, user_id, days, today) ==
    LET cutoff_date == today - days
        rows == {r \in db.conversations :
                    r.user_client_id = user_id /\ r.created_at >= cutoff_date}
        convo(row) == [title |-> row.title, model |-> row.model, messages |-> <<>>,
                       created_at |-> isoformat(row.created_at),
                       last_modified |-> isoformat(row.last_modified)]
    IN  {[i \in 1..Len(s) |-> <<s[i].conversation_id, convo(s[i])>>] :
            s \in RowsByModifiedDesc(rows)}

\* the message rows of a conversation, ORDER BY sequence_number ASC
RECURSIVE MessageRowsAsc(_)
MessageRowsAsc(rows) ==
    IF rows = {} THEN <<>>
    ELSE LET first == CHOOSE r \in rows : \A q \in rows : r.sequence_number <= q.sequence_number
         IN  <<first>> \o MessageRowsAsc(rows \ {first})

\* PostgreSQLBackend.get_conversation
PostgreSQLBackend_get_conversation(db, conversation_id, user_id) ==
    LET conv_rows == {r \in db.conversations :
                        r.conversation_id = conversation_id /\ r.user_client_id = user_id}
    IN  IF conv_rows = {} THEN None
        ELSE LET conv_row == CHOOSE r \in conv_rows : TRUE
                 message_rows == MessageRowsAsc(
                     {m \in db.messages : m.conversation_id = conversation_id})
                 messages == [i \in 1..Len(message_rows) |->
                                [role |-> message_rows[i].role,
                                 content |-> message_rows[i].content,
                                 time |-> isoformat(message_rows[i].timestamp)]]
             IN  Returned([title |-> conv_row.title, model |-> conv_row.model,
                           messages |-> messages,
                           created_at |-> isoformat(conv_row.created_at),
                           last_modified |-> isoformat(conv_row.last_modified)])

(* The statements of the save transaction, on the transaction's view of the tables *)

\* variant for C11: an upsert with ON CONFLICT DO NOTHING
UpsertConversationDoNothing(db, conversation_id, user_id, conversation) ==
    IF \E r \in db.conversations : r.conversation_id = conversation_id
    THEN db
    ELSE [db EXCEPT !.conversations = @ \cup
            {[conversation_id |-> conversation_id, user_client_id |-> user_id,
              title |-> conversation.title, model |-> conversation.model,
              created_at |-> fromisoformat(get_or_now(conversation.created_at)),
              last_modified |-> fromisoformat(get_or_now(conversation.last_modified))]}]

\* INSERT INTO conversations ... ON CONFLICT (conversation_id) DO UPDATE SET title, model, last_modified
UpsertConversation(db, conversation_id, user_id, conversation) ==
    LET created_at == fromisoformat(get_or_now(conversation.created_at))
        last_modified == fromisoformat(get_or_now(conversation.last_modified))
        conflict == \E r \in db.conversations : r.conversation_id = conversation_id
    IN  IF conflict
        THEN [db EXCEPT !.conversations =
                {IF r.conversation_id = conversation_id
                 THEN [r EXCEPT !.title = conversation.title,
                                !.model = conversation.model,
                                !.last_modified = last_modified]
                 ELSE r : r \in db.conversations}]
        ELSE [db EXCEPT !.conversations = @ \cup
                {[conversation_id |-> conversation_id, user_client_id |-> user_id,
                  title |-> conversation.title, model |-> conversation.model,
                  created_at |-> created_at, last_modified |-> last_modified]}]

\* variant for C10: save_conversation without its DELETE statement
DeleteMessagesNone(db, conversation_id) == db

\* DELETE FROM messages WHERE conversation_id = %s
DeleteMessages(db, conversation_id) ==
    [db EXCEPT !.messages = {m \in @ : m.conversation_id # conversation_id}]

\* INSERT INTO messages (conversation_id, sequence_number, role, content, timestamp)
InsertMessage(db, conversation_id, seq_num, msg) ==
    [db EXCEPT !.messages = @ \cup
        {[conversation_id |-> conversation_id, sequence_number |-> seq_num,
          role |-> msg.role, content |-> msg.content,
          timestamp |-> fromisoformat(msg.time)]}]

\* number of statements the save of a document executes
NumStatements(conversation) == 2 + Len(conversation.messages)

(* The body of "with conn:" in save_conversation.  fail_at = k > 0 makes the   *)
(* k-th cur.execute raise (1: the upsert, 2: the delete, 2 + i: the insert of   *)
(* the i-th message); a timestamp that does not parse raises ValueError.        *)
(* Result: the transaction's view when the body ends, and whether it raised.    *)
RECURSIVE InsertLoop(_, _, _, _, _)
InsertLoop(db, conversation_id, messages, i, fail_at) ==
    IF i > Len(messages) THEN [db |-> db, raised |-> FALSE]
    ELSE IF fromisoformat_raises(messages[i].time) \/ fail_at = 2 + i
         THEN [db |-> db, raised |-> TRUE]
         ELSE InsertLoop(InsertMessage(db, conversation_id, i - 1, messages[i]),
                         conversation_id, messages, i + 1, fail_at)

SaveTransaction(db, conversation_id, user_id, conversation, fail_at) ==
    IF \/ fromisoformat_raises(get_or_now(conversation.created_at))
       \/ fromisoformat_raises(get_or_now(conversation.last_modified))
       \/ fail_at = 1
    THEN [db |-> db, raised |-> TRUE]
    ELSE LET upserted == UpsertConversation(db, conversation_id, user_id, conversation)
         IN  IF fail_at = 2 THEN [db |-> upserted, raised |-> TRUE]
             ELSE InsertLoop(DeleteMessages(upserted, conversation_id),
                             conversation_id, conversation.messages, 1, fail_at)

\* variant for C7: save_conversation on an autocommit connection, where every
\* statement that ran stays
save_conversation_autocommit(db, conversation_id, user_id, conversation, fail_at) ==
    LET txn == SaveTransaction(db, conversation_id, user_id, conversation, fail_at)
    IN  [db |-> txn.db, raised |-> txn.raised]

\* PostgreSQLBackend.save_conversation: "with conn:" commits when the body ends
\* normally and rolls back when it raises
PostgreSQLBackend_save_conversation(db, conversation_id, user_id, conversation, fail_at) ==
    LET txn == SaveTransaction(db, conversation_id, user_id, conversation, fail_at)
    IN  [db |-> IF txn.raised THEN db ELSE txn.db, raised |-> txn.raised]

\* PostgreSQLBackend.delete_conversation; the foreign key deletes the message rows
PostgreSQLBackend_delete_conversation(db, conversation_id, user_id, fail) ==
    IF fail THEN [db |-> db, raised |-> TRUE]
    ELSE LET deleted == {r \in db.conversations :
                            r.conversation_id = conversation_id /\ r.user_client_id = user_id}
             gone == {r.conversation_id : r \in deleted}
         IN  [db |-> [conversations |-> db.conversations \ deleted,
                      messages |-> {m \in db.messages : m.conversation_id \notin gone}],
              raised |-> FALSE]

---------------------------------------------------------------------------
(* Redis.  A key exists exactly while its sorted set or list is not empty.  *)
(* ttl[key]: 0 for a key that does not exist, -1 for a key with no expiry,   *)
(* otherwise the ticks the key has left.                                     *)

\* f"chat:{user_id}:conversations" and f"chat:{conversation_id}:messages"
conv_key(user_id) == user_id
msg_key(conversation_id) == conversation_id

EmptyRedis ==
    [zset |-> [u \in Users |-> {}],
     list |-> [c \in Ids |-> <<>>],
     ttl |-> [k \in Users \cup Ids |-> 0]]

\* byte order of the strings that appear in a cached metadata entry
TitleRank(title) == IF title = "Hi" THEN 1 ELSE 2
ModelRank(model) == IF model = "gpt-4o" THEN 1 ELSE 2
FormRank(s) == IF s.form = "iso" THEN 1 ELSE 2

\* the order of a sorted set: by score, equal scores by the member's bytes
\* (the JSON text: conversation_id, title, model, created_at, last_modified)
MemberKey(e) ==
    <<e.score, IdRank(e.member.conversation_id), TitleRank(e.member.title),
      ModelRank(e.member.model), e.member.created_at.inst, FormRank(e.member.created_at),
      e.member.last_modified.inst, FormRank(e.member.last_modified)>>

RECURSIVE LexGreaterFrom(_, _, _)
LexGreaterFrom(a, b, i) ==
    IF i > Len(a) THEN FALSE
    ELSE IF a[i] # b[i] THEN a[i] > b[i]
         ELSE LexGreaterFrom(a, b, i + 1)

EntryGreater(e1, e2) == LexGreaterFrom(MemberKey(e1), MemberKey(e2), 1)

\* ZREVRANGE key 0 -1: the members, highest score first
RECURSIVE EntriesDesc(_)
EntriesDesc(entries) ==
    IF entries = {} THEN <<>>
    ELSE LET top == CHOOSE e \in entries : \A f \in entries \ {e} : EntryGreater(e, f)
         IN  <<top.member>> \o EntriesDesc(entries \ {top})

ZREVRANGE(r, key) == EntriesDesc(r.zset[key])

\* ZADD key score member: a member already in the set only gets the new score
ZADD(r, key, member, score) ==
    [r EXCEPT !.zset[key] = {e \in @ : e.member # member}
                                \cup {[member |-> member, score |-> score]},
              !.ttl[key] = IF r.zset[key] = {} THEN -1 ELSE @]

\* ZREM key member: the key goes with its last member
ZREM(r, key, member) ==
    LET rest == {e \in r.zset[key] : e.member # member}
    IN  [r EXCEPT !.zset[key] = rest,
                  !.ttl[key] = IF rest = {} THEN 0 ELSE @]

LRANGE(r, key) == r.list[key]
LLEN(r, key) == Len(r.list[key])

RPUSH(r, key, value) ==
    [r EXCEPT !.list[key] = Append(@, value),
              !.ttl[key] = IF r.list[key] = <<>> THEN -1 ELSE @]

\* DEL of a list key
DEL(r, key) == [r EXCEPT !.list[key] = <<>>, !.ttl[key] = 0]

\* EXPIRE key seconds: nothing on a key that does not exist
EXPIRE(r, key, seconds) ==
    IF r.ttl[key] = 0 THEN r ELSE [r EXCEPT !.ttl[key] = seconds]

\* one TTL tick: every key with an expiry loses one tick, and a key with none left is gone
ExpireTick(r) ==
    LET left(k) == IF r.ttl[k] > 0 THEN r.ttl[k] - 1 ELSE r.ttl[k]
    IN  [zset |-> [u \in Users |-> IF left(u) = 0 THEN {} ELSE r.zset[u]],
         list |-> [c \in Ids |-> IF left(c) = 0 THEN <<>> ELSE r.list[c]],
         ttl |-> [k \in Users \cup Ids |-> left(k)]]

---------------------------------------------------------------------------
(* RedisBackend.  Every method takes "fail": a redis.RedisError is raised      *)
(* inside this call (the commands of a pipeline are one MULTI/EXEC, so a       *)
(* failed call wrote nothing).  A method returns [ret, redis, warned]:         *)
(* its return value, the cache after it, and whether it logged a warning.      *)

json_meta(conversation_id, conversation) ==
    [conversation_id |-> conversation_id,
     title |-> conversation.title,
     model |-> conversation.model,
     created_at |-> conversation.created_at,
     last_modified |-> conversation.last_modified]

\* the sequence without the elements that fail the test
RECURSIVE SelectConversations(_, _)
SelectConversations(metas, cutoff) ==
    IF metas = <<>> THEN <<>>
    ELSE LET meta == Head(metas)
             rest == SelectConversations(Tail(metas), cutoff)
         IN  IF fromisoformat(meta.created_at) >= cutoff
             THEN <<<<meta.conversation_id,
                      [title |-> meta.title, model |-> meta.model, messages |-> <<>>,
                       created_at |-> meta.created_at,
                       last_modified |-> meta.last_modified]>>>> \o rest
             ELSE rest

\* RedisBackend.get_conversations_list
RedisBackend_get_conversations_list(r, user_id, days, today, fail) ==
    IF fail THEN [ret |-> None, redis |-> r, warned |-> TRUE]
    ELSE LET raw_data == ZREVRANGE(r, conv_key(user_id))
         IN  IF raw_data # <<>>
             THEN [ret |-> ReturnedList(SelectConversations(raw_data, today - days)),
                   redis |-> EXPIRE(r, conv_key(user_id), RedisTtl),
                   warned |-> FALSE]
             ELSE [ret |-> None, redis |-> r, warned |-> FALSE]

\* RedisBackend.set_conversations_list
RECURSIVE ZaddConversations(_, _, _)
ZaddConversations(r, key, conversations) ==
    IF conversations = <<>> THEN r
    ELSE LET cid == Head(conversations)[1]
             convo == Head(conversations)[2]
         IN  ZaddConversations(
                 ZADD(r, key, json_meta(cid, convo), fromisoformat(convo.last_modified)),
                 key, Tail(conversations))

RedisBackend_set_conversations_list(r, user_id, conversations, fail) ==
    IF fail THEN [ret |-> FALSE, redis |-> r, warned |-> TRUE]
    ELSE [ret |-> TRUE,
          redis |-> EXPIRE(ZaddConversations(r, conv_key(user_id), conversations),
                           conv_key(user_id), RedisTtl),
          warned |-> FALSE]

\* the first cached metadata entry of the conversation, or None
RECURSIVE FindMeta(_, _)
FindMeta(all_convos, conversation_id) ==
    IF all_convos = <<>> THEN None
    ELSE IF Head(all_convos).conversation_id = conversation_id
         THEN Returned(Head(all_convos))
         ELSE FindMeta(Tail(all_convos), conversation_id)

\* variant for C29: get_conversation_messages that returns a hit without refreshing
\* the TTLs
get_conversation_messages_no_refresh(r, conversation_id, user_id, fail) ==
    IF fail THEN [ret |-> None, redis |-> r, warned |-> TRUE]
    ELSE LET messages_json == LRANGE(r, msg_key(conversation_id))
             meta == FindMeta(ZREVRANGE(r, conv_key(user_id)), conversation_id)
         IN  IF messages_json # <<>> /\ meta # None
             THEN [ret |-> Returned([title |-> meta.value.title,
                                     model |-> meta.value.model,
                                     messages |-> messages_json,
                                     created_at |-> meta.value.created_at,
                                     last_modified |-> meta.value.last_modified]),
                   redis |-> r,
                   warned |-> FALSE]
             ELSE [ret |-> None, redis |-> r, warned |-> FALSE]

\* RedisBackend.get_conversation_messages
RedisBackend_get_conversation_messages(r, conversation_id, user_id, fail) ==
    IF fail THEN [ret |-> None, redis |-> r, warned |-> TRUE]
    ELSE LET messages_json == LRANGE(r, msg_key(conversation_id))
             meta == FindMeta(ZREVRANGE(r, conv_key(user_id)), conversation_id)
         IN  IF messages_json # <<>> /\ meta # None
             THEN [ret |-> Returned([title |-> meta.value.title,
                                     model |-> meta.value.model,
                                     messages |-> messages_json,
                                     created_at |-> meta.value.created_at,
                                     last_modified |-> meta.value.last_modified]),
                   redis |-> EXPIRE(EXPIRE(r, msg_key(conversation_id), RedisTtl),
                                    conv_key(user_id), RedisTtl),
                   warned |-> FALSE]
             ELSE [ret |-> None, redis |-> r, warned |-> FALSE]

\* the cached form of a message
msg_with_seq(seq, msg) ==
    [sequence_number |-> seq, role |-> msg.role, content |-> msg.content, time |-> msg.time]

RECURSIVE RpushMessages(_, _, _, _)
RpushMessages(r, key, messages, start_sequence) ==
    IF messages = <<>> THEN r
    ELSE RpushMessages(RPUSH(r, key, msg_with_seq(start_sequence, Head(messages))),
                       key, Tail(messages), start_sequence + 1)

\* RedisBackend.set_conversation_messages
RedisBackend_set_conversation_messages(r, conversation_id, messages, fail) ==
    IF fail THEN [ret |-> FALSE, redis |-> r, warned |-> TRUE]
    ELSE [ret |-> TRUE,
          redis |-> EXPIRE(RpushMessages(DEL(r, msg_key(conversation_id)),
                                         msg_key(conversation_id), messages, 0),
                           msg_key(conversation_id), RedisTtl),
          warned |-> FALSE]

\* conversation['created_at'] or conversation['last_modified'] raises KeyError
metadata_key_error(conversation) ==
    conversation.created_at = Absent \/ conversation.last_modified = Absent

\* RedisBackend.update_conversation_metadata; "raised": an exception that is no
\* redis.RedisError left the method before the pipeline was executed
RedisBackend_update_conversation_metadata(r, user_id, conversation_id, conversation, fail) ==
    IF fail THEN [ret |-> FALSE, redis |-> r, warned |-> TRUE, raised |-> FALSE]
    ELSE IF metadata_key_error(conversation)
    THEN [ret |-> FALSE, redis |-> r, warned |-> FALSE, raised |-> TRUE]
    ELSE LET old == FindMeta(ZREVRANGE(r, conv_key(user_id)), conversation_id)
             removed == IF old = None THEN r ELSE ZREM(r, conv_key(user_id), old.value)
             added == ZADD(removed, conv_key(user_id),
                           json_meta(conversation_id, conversation),
                           fromisoformat(conversation.last_modified))
         IN  [ret |-> TRUE, redis |-> EXPIRE(added, conv_key(user_id), RedisTtl),
              warned |-> FALSE, raised |-> FALSE]

\* variant for C9: append_messages numbering the new messages like enumerate(), from 0
append_messages_from_zero(r, conversation_id, new_messages, start_sequence, fail) ==
    IF fail THEN [ret |-> FALSE, redis |-> r, warned |-> TRUE]
    ELSE [ret |-> TRUE,
          redis |-> EXPIRE(RpushMessages(r, msg_key(conversation_id), new_messages, 0),
                           msg_key(conversation_id), RedisTtl),
          warned |-> FALSE]

\* RedisBackend.append_messages
RedisBackend_append_messages(r, conversation_id, new_messages, start_sequence, fail) ==
    IF fail THEN [ret |-> FALSE, redis |-> r, warned |-> TRUE]
    ELSE [ret |-> TRUE,
          redis |-> EXPIRE(RpushMessages(r, msg_key(conversation_id),
                                         new_messages, start_sequence),
                           msg_key(conversation_id), RedisTtl),
          warned |-> FALSE]

\* variant for C5: delete_conversation_cache that removes the metadata entry and
\* leaves the message list
delete_conversation_cache_metadata_only(r, user_id, conversation_id, fail) ==
    IF fail THEN [ret |-> FALSE, redis |-> r, warned |-> TRUE]
    ELSE LET old == FindMeta(ZREVRANGE(r, conv_key(user_id)), conversation_id)
         IN  [ret |-> TRUE,
              redis |-> IF old = None THEN r ELSE ZREM(r, conv_key(user_id), old.value),
              warned |-> FALSE]

\* RedisBackend.delete_conversation_cache
RedisBackend_delete_conversation_cache(r, user_id, conversation_id, fail) ==
    IF fail THEN [ret |-> FALSE, redis |-> r, warned |-> TRUE]
    ELSE LET old == FindMeta(ZREVRANGE(r, conv_key(user_id)), conversation_id)
             removed == IF old = None THEN r ELSE ZREM(r, conv_key(user_id), old.value)
         IN  [ret |-> TRUE, redis |-> DEL(removed, msg_key(conversation_id)),
              warned |-> FALSE]

---------------------------------------------------------------------------
(* Flat-file store: the directory .chat_history/ *)

Suffixes == {".json", ".json.tmp"}
FileNames == Ids \X Suffixes
NoFile == [kind |-> "nofile"]
\* json.dumps(conversation, ensure_ascii=False, indent=2), all of it or a strict prefix of it
JsonText(conversation) == [kind |-> "text", complete |-> TRUE, doc |-> conversation]
PartialText(conversation) == [kind |-> "text", complete |-> FALSE, doc |-> conversation]

EmptyDir == [f \in FileNames |-> NoFile]

\* variant for C8: save_conversation writing the document's own file in place
tmp_path_in_place(conversation_id) == <<conversation_id, ".json">>

\* self.store_dir / f"{conversation_id}.json" and path.with_suffix(".json.tmp")
path_of(conversation_id) == <<conversation_id, ".json">>
tmp_path_of(conversation_id) == <<conversation_id, ".json.tmp">>

\* ChatHistoryManager._iter_json_files: directory.glob("*.json")
_iter_json_files(dir) == {f \in FileNames : dir[f] # NoFile /\ f[2] = ".json"}

\* variant for C20: a reader that takes whatever text a file holds for its document
read_json_unchecked(dir, path) ==
    IF dir[path] = NoFile THEN None ELSE Returned(dir[path].doc)

\* ChatHistoryManager._safe_read_json: None for a missing file and for text json.loads rejects
_safe_read_json(dir, path) ==
    IF dir[path] = NoFile THEN None
    ELSE IF dir[path].complete THEN Returned(dir[path].doc)
         ELSE None

\* sorted(paths), then the documents that could be read
RECURSIVE ReadSorted(_, _)
ReadSorted(dir, paths) ==
    IF paths = {} THEN <<>>
    ELSE LET path == CHOOSE f \in paths : \A g \in paths : IdRank(f[1]) <= IdRank(g[1])
             data == _safe_read_json(dir, path)
             rest == ReadSorted(dir, paths \ {path})
         IN  IF data # None THEN <<<<path[1], data.value>>>> \o rest ELSE rest

NoSave == [pc |-> "idle"]

\* no browser session: st.session_state is empty
NoSession ==
    [pc |-> "closed", did |-> "", conversations |-> [c \in Ids |-> NoDoc],
     current_id |-> "", selected_model |-> "gpt-4o-mini", save_id |-> ""]

\* no PostgreSQLBackend method is in progress
NoBackendCall == [pc |-> "idle"]

\* a thread that is in no call of the History Manager: pc is the statement it runs
\* next, conversation the document it saves, read what its latest query or cache
\* read returned, and redis_msg_count the local of save_conversation
NoThread == [pc |-> "idle", conversation |-> NoDoc, read |-> None, redis_msg_count |-> 0]
NoThreads == [writer |-> NoThread, reader |-> NoThread]

---------------------------------------------------------------------------
(* ChatHistoryManager: what a call returns and what it leaves behind, as   *)
(* functions of the stores.  f1 and f2 make the first and the second cache *)
(* call of the handler raise redis.RedisError.                             *)

UsesBackend == mode \in {"postgres", "redis"}
UsesCache == mode = "redis" /\ cache_available

\* ChatHistoryManager.list_conversations: the outcomes the call can have; calls
\* are the calls it made of the backend and of the cache, in order
ListOutcomes(db, r, dir, user_id, f1, f2) ==
    IF mode = "local"
    THEN {[ret |-> ReturnedList(ReadSorted(dir, _iter_json_files(dir))),
           redis |-> r, warned |-> FALSE, calls |-> <<>>]}
    ELSE IF user_id = NoUser
    THEN {[ret |-> Raised("ValueError"), redis |-> r, warned |-> FALSE, calls |-> <<>>]}
    ELSE IF mode = "postgres"
    THEN {[ret |-> ReturnedList(c), redis |-> r, warned |-> FALSE,
           calls |-> <<"backend.list_conversations">>] :
            c \in PostgreSQLBackend_list_conversations(db, user_id, HistoryDays, now)}
    ELSE LET cached == IF UsesCache
                       THEN RedisBackend_get_conversations_list(r, user_id, HistoryDays, now, f1)
                       ELSE [ret |-> None, redis |-> r, warned |-> FALSE]
             probe == IF UsesCache THEN <<"cache.get_conversations_list">> ELSE <<>>
         IN  IF cached.ret # None
             THEN {[ret |-> cached.ret, redis |-> cached.redis, warned |-> FALSE,
                    calls |-> probe]}
             ELSE {LET populated == IF UsesCache
                                    THEN RedisBackend_set_conversations_list(
                                             cached.redis, user_id, c, f2)
                                    ELSE [ret |-> FALSE, redis |-> r, warned |-> FALSE]
                   IN  [ret |-> ReturnedList(c), redis |-> populated.redis,
                        warned |-> cached.warned \/ populated.warned,
                        calls |-> probe \o <<"backend.list_conversations">>
                                  \o (IF UsesCache THEN <<"cache.set_conversations_list">>
                                      ELSE <<>>)] :
                    c \in PostgreSQLBackend_list_conversations(db, user_id, HistoryDays, now)}

\* variant for C28: get_conversation that returns what the backend holds after a
\* cache miss and leaves the cache as it is
GetOutcomeNoPopulate(db, r, dir, conversation_id, user_id, f1, f2) ==
    IF mode = "local"
    THEN [ret |-> _safe_read_json(dir, path_of(conversation_id)),
          redis |-> r, warned |-> FALSE, calls |-> <<>>]
    ELSE IF user_id = NoUser
    THEN [ret |-> Raised("ValueError"), redis |-> r, warned |-> FALSE, calls |-> <<>>]
    ELSE IF mode = "postgres"
    THEN [ret |-> PostgreSQLBackend_get_conversation(db, conversation_id, user_id),
          redis |-> r, warned |-> FALSE, calls |-> <<"backend.get_conversation">>]
    ELSE LET cached == IF UsesCache
                       THEN RedisBackend_get_conversation_messages(
                                r, conversation_id, user_id, f1)
                       ELSE [ret |-> None, redis |-> r, warned |-> FALSE]
             probe == IF UsesCache THEN <<"cache.get_conversation_messages">> ELSE <<>>
         IN  IF cached.ret # None
             THEN [ret |-> cached.ret, redis |-> cached.redis, warned |-> cached.warned,
                   calls |-> probe]
             ELSE [ret |-> PostgreSQLBackend_get_conversation(db, conversation_id, user_id),
                   redis |-> cached.redis, warned |-> cached.warned,
                   calls |-> probe \o <<"backend.get_conversation">>]

\* variant for C30: get_conversation whose populate step does not ask is_available()
GetOutcomeUncheckedPopulate(db, r, dir, conversation_id, user_id, f1, f2) ==
    IF mode = "local"
    THEN [ret |-> _safe_read_json(dir, path_of(conversation_id)),
          redis |-> r, warned |-> FALSE, calls |-> <<>>]
    ELSE IF user_id = NoUser
    THEN [ret |-> Raised("ValueError"), redis |-> r, warned |-> FALSE, calls |-> <<>>]
    ELSE IF mode = "postgres"
    THEN [ret |-> PostgreSQLBackend_get_conversation(db, conversation_id, user_id),
          redis |-> r, warned |-> FALSE, calls |-> <<"backend.get_conversation">>]
    ELSE LET cached == IF UsesCache
                       THEN RedisBackend_get_conversation_messages(
                                r, conversation_id, user_id, f1)
                       ELSE [ret |-> None, redis |-> r, warned |-> FALSE]
             probe == IF UsesCache THEN <<"cache.get_conversation_messages">> ELSE <<>>
         IN  IF cached.ret # None
             THEN [ret |-> cached.ret, redis |-> cached.redis, warned |-> cached.warned,
                   calls |-> probe]
             ELSE LET conversation ==
                          PostgreSQLBackend_get_conversation(db, conversation_id, user_id)
                      populated ==
                          IF conversation # None /\ UsesCache
                          THEN RedisBackend_set_conversation_messages(
                                   cached.redis, conversation_id,
                                   conversation.value.messages, f2)
                          ELSE [ret |-> FALSE, redis |-> cached.redis,
                                warned |-> conversation # None]
                  IN  [ret |-> conversation, redis |-> populated.redis,
                       warned |-> cached.warned \/ populated.warned,
                       calls |-> probe \o <<"backend.get_conversation">>
                                 \o (IF conversation # None
                                     THEN <<"cache.set_conversation_messages">>
                                     ELSE <<>>)]

\* ChatHistoryManager.get_conversation
GetOutcome(db, r, dir, conversation_id, user_id, f1, f2) ==
    IF mode = "local"
    THEN [ret |-> _safe_read_json(dir, path_of(conversation_id)),
          redis |-> r, warned |-> FALSE, calls |-> <<>>]
    ELSE IF user_id = NoUser
    THEN [ret |-> Raised("ValueError"), redis |-> r, warned |-> FALSE, calls |-> <<>>]
    ELSE IF mode = "postgres"
    THEN [ret |-> PostgreSQLBackend_get_conversation(db, conversation_id, user_id),
          redis |-> r, warned |-> FALSE, calls |-> <<"backend.get_conversation">>]
    ELSE LET cached == IF UsesCache
                       THEN RedisBackend_get_conversation_messages(
                                r, conversation_id, user_id, f1)
                       ELSE [ret |-> None, redis |-> r, warned |-> FALSE]
             probe == IF UsesCache THEN <<"cache.get_conversation_messages">> ELSE <<>>
         IN  IF cached.ret # None
             THEN [ret |-> cached.ret, redis |-> cached.redis, warned |-> cached.warned,
                   calls |-> probe]
             ELSE LET conversation ==
                          PostgreSQLBackend_get_conversation(db, conversation_id, user_id)
                      populated ==
                          IF conversation # None /\ UsesCache
                          THEN RedisBackend_set_conversation_messages(
                                   cached.redis, conversation_id,
                                   conversation.value.messages, f2)
                          ELSE [ret |-> FALSE, redis |-> cached.redis, warned |-> FALSE]
                  IN  [ret |-> conversation, redis |-> populated.redis,
                       warned |-> cached.warned \/ populated.warned,
                       calls |-> probe \o <<"backend.get_conversation">>
                                 \o (IF conversation # None /\ UsesCache
                                     THEN <<"cache.set_conversation_messages">>
                                     ELSE <<>>)]

\* variant for C32: conversation['messages'], the whole list whatever is cached
messages_from_start(messages, redis_msg_count) == messages

\* conversation['messages'][redis_msg_count:]
MessagesFrom(messages, redis_msg_count) ==
    SubSeq(messages, redis_msg_count + 1, Len(messages))

\* step 2 of save_conversation in mode "redis": the cache after a committed save
SaveUpdateCache(r, conversation_id, conversation, user_id, f1, f2) ==
    LET meta == RedisBackend_update_conversation_metadata(
                    r, user_id, conversation_id, conversation, f1)
        redis_msg_count == LLEN(meta.redis, msg_key(conversation_id))
        new_messages == MessagesFrom(conversation.messages, redis_msg_count)
        msgs == IF f2
                THEN [ret |-> FALSE, redis |-> meta.redis, warned |-> TRUE]
                ELSE IF new_messages # <<>>
                THEN RedisBackend_append_messages(
                         meta.redis, conversation_id, new_messages, redis_msg_count, FALSE)
                ELSE IF redis_msg_count = 0
                THEN RedisBackend_set_conversation_messages(
                         meta.redis, conversation_id, conversation.messages, FALSE)
                ELSE [ret |-> TRUE, redis |-> meta.redis, warned |-> FALSE]
        written == IF f2 THEN <<>>
                   ELSE IF new_messages # <<>> THEN <<"cache.append_messages">>
                   ELSE IF redis_msg_count = 0 THEN <<"cache.set_conversation_messages">>
                   ELSE <<>>
    IN  IF meta.raised
        THEN [redis |-> meta.redis, warned |-> FALSE, raised |-> TRUE,
              calls |-> <<"cache.update_conversation_metadata">>]
        ELSE [redis |-> msgs.redis, warned |-> meta.warned \/ msgs.warned,
              raised |-> FALSE,
              calls |-> <<"cache.update_conversation_metadata", "cache.redis_client.llen">>
                        \o written]

\* variant for C6: save_conversation that updates the cache before it writes the
\* relational backend
SaveOutcomeCacheFirst(db, r, conversation_id, conversation, user_id, fail_at, f1, f2) ==
    IF user_id = NoUser
    THEN [ret |-> Raised("ValueError"), db |-> db, redis |-> r, warned |-> FALSE,
          calls |-> <<>>]
    ELSE LET cached == IF UsesCache
                       THEN SaveUpdateCache(r, conversation_id, conversation,
                                            user_id, f1, f2)
                       ELSE [redis |-> r, warned |-> FALSE, raised |-> FALSE,
                             calls |-> <<>>]
             saved == PostgreSQLBackend_save_conversation(
                          db, conversation_id, user_id, conversation, fail_at)
         IN  [ret |-> IF cached.raised THEN Raised("KeyError")
                      ELSE IF saved.raised THEN Raised("backend") ELSE Done,
              db |-> IF cached.raised THEN db ELSE saved.db,
              redis |-> cached.redis, warned |-> cached.warned,
              calls |-> cached.calls \o (IF cached.raised THEN <<>>
                                         ELSE <<"backend.save_conversation">>)]

\* variant for C15: save_conversation that misses the user_id only after the
\* relational write
SaveOutcomeLateCheck(db, r, conversation_id, conversation, user_id, fail_at, f1, f2) ==
    LET saved == PostgreSQLBackend_save_conversation(
                     db, conversation_id, user_id, conversation, fail_at)
    IN  IF user_id = NoUser
        THEN [ret |-> Raised("ValueError"), db |-> saved.db, redis |-> r, warned |-> FALSE,
              calls |-> <<"backend.save_conversation">>]
        ELSE IF saved.raised
        THEN [ret |-> Raised("backend"), db |-> saved.db, redis |-> r, warned |-> FALSE,
              calls |-> <<"backend.save_conversation">>]
        ELSE IF UsesCache
        THEN LET cached == SaveUpdateCache(r, conversation_id, conversation,
                                           user_id, f1, f2)
             IN  [ret |-> IF cached.raised THEN Raised("KeyError") ELSE Done,
                  db |-> saved.db, redis |-> cached.redis, warned |-> cached.warned,
                  calls |-> <<"backend.save_conversation">> \o cached.calls]
        ELSE [ret |-> Done, db |-> saved.db, redis |-> r, warned |-> FALSE,
              calls |-> <<"backend.save_conversation">>]

\* ChatHistoryManager.save_conversation, modes "postgres" and "redis"
SaveOutcome(db, r, conversation_id, conversation, user_id, fail_at, f1, f2) ==
    IF user_id = NoUser
    THEN [ret |-> Raised("ValueError"), db |-> db, redis |-> r, warned |-> FALSE,
          calls |-> <<>>]
    ELSE LET saved == PostgreSQLBackend_save_conversation(
                          db, conversation_id, user_id, conversation, fail_at)
         IN  IF saved.raised
             THEN [ret |-> Raised("backend"), db |-> saved.db, redis |-> r, warned |-> FALSE,
                   calls |-> <<"backend.save_conversation">>]
             ELSE IF UsesCache
             THEN LET cached == SaveUpdateCache(r, conversation_id, conversation,
                                                user_id, f1, f2)
                  IN  [ret |-> IF cached.raised THEN Raised("KeyError") ELSE Done,
                       db |-> saved.db, redis |-> cached.redis,
                       warned |-> cached.warned,
                       calls |-> <<"backend.save_conversation">> \o cached.calls]
             ELSE [ret |-> Done, db |-> saved.db, redis |-> r, warned |-> FALSE,
                   calls |-> <<"backend.save_conversation">>]

\* ChatHistoryManager.delete_conversation, modes "postgres" and "redis"
DeleteOutcome(db, r, conversation_id, user_id, fail, f1) ==
    IF user_id = NoUser
    THEN [ret |-> Raised("ValueError"), db |-> db, redis |-> r, warned |-> FALSE,
          calls |-> <<>>]
    ELSE LET deleted == PostgreSQLBackend_delete_conversation(
                            db, conversation_id, user_id, fail)
         IN  IF deleted.raised
             THEN [ret |-> Raised("backend"), db |-> deleted.db, redis |-> r,
                   warned |-> FALSE, calls |-> <<"backend.delete_conversation">>]
             ELSE IF UsesCache
             THEN LET cached == RedisBackend_delete_conversation_cache(
                                    r, user_id, conversation_id, f1)
                  IN  [ret |-> Done, db |-> deleted.db, redis |-> cached.redis,
                       warned |-> cached.warned,
                       calls |-> <<"backend.delete_conversation",
                                   "cache.delete_conversation_cache">>]
             ELSE [ret |-> Done, db |-> deleted.db, redis |-> r, warned |-> FALSE,
                   calls |-> <<"backend.delete_conversation">>]

---------------------------------------------------------------------------
(* The state machine *)

\* a facade call and its result; calls are the calls it made of the backend and of
\* the cache
CallMade(op, conversation_id, user_id, conversation, out) ==
    [op |-> op, conversation_id |-> conversation_id, user_id |-> user_id,
     conversation |-> conversation, ret |-> out.ret, warned |-> out.warned,
     calls |-> out.calls]

\* a call that made no call of the backend or of the cache
Call(op, conversation_id, user_id, conversation, ret, warned) ==
    [op |-> op, conversation_id |-> conversation_id, user_id |-> user_id,
     conversation |-> conversation, ret |-> ret, warned |-> warned, calls |-> <<>>]

Stores == [pg |-> pg, redis |-> redis, fs |-> fs]

\* an event that is no facade call
Event(what) == Call(what, "", NoUser, NoDoc, Done, FALSE)

\* a connection string, a host name or a password that is given
Given == [kind |-> "str", value |-> "given"]
\* the values of a string argument of __init__: None, "" and a string
StringArgs == {None, [kind |-> "str", value |-> ""], Given}
\* not connection_string, not redis_host, not redis_password
Not(arg) == arg = None \/ arg.value = ""

\* the manager that __init__ has returned: self.backend and self.cache are set
\* as the mode wants them
Constructed(m) ==
    [pc |-> "done",
     connection_string |-> IF m = "local" THEN None ELSE Given,
     redis_host |-> IF m = "redis" THEN Given ELSE None,
     redis_password |-> IF m = "redis" THEN Given ELSE None,
     backend |-> m \in {"postgres", "redis"},
     cache |-> m = "redis",
     raised |-> ""]

\* the stores are empty and nothing has been called
Fresh(faults) ==
    /\ pg = EmptyDb
    /\ redis = EmptyRedis
    /\ fs = EmptyDir
    /\ local_save = NoSave
    /\ now = HistoryDays
    /\ nops = 0
    /\ faults_left = faults
    /\ last = Event("init")
    /\ before = [pg |-> EmptyDb, redis |-> EmptyRedis, fs |-> EmptyDir]
    /\ pool_used = 0
    /\ backend_call = NoBackendCall
    /\ since_commit = 0
    /\ session = NoSession
    /\ threads = NoThreads

\* ChatHistoryManager.__init__ has returned, on empty stores: the mode, and whether
\* the Redis ping succeeded
Start(modes, faults) ==
    /\ mode \in modes
    /\ cache_available \in (IF mode = "redis" THEN BOOLEAN ELSE {FALSE})
    /\ constructor = Constructed(mode)
    /\ Fresh(faults)

Init == Start(Modes, MaxFaults)

Idle == local_save = NoSave /\ backend_call = NoBackendCall /\ nops < MaxOps

\* the user_id arguments of a call: ignored in mode "local", a user or none otherwise
UserArgs == IF mode = "local" THEN {NoUser} ELSE Users \cup {NoUser}
\* whether a command may raise in this call
MayFail == faults_left > 0
\* the cache calls that can raise
CacheFaults == IF UsesCache /\ MayFail THEN BOOLEAN ELSE {FALSE}
\* the statements of a backend write that can raise (0: none does)
BackendFaults(n) == IF UsesBackend /\ MayFail THEN 0..n ELSE {0}
\* a facade call begins and ends
Called(failed) ==
    /\ nops' = nops + 1
    /\ faults_left' = IF failed THEN faults_left - 1 ELSE faults_left
    /\ before' = Stores

list_conversations_call(user_id) ==
    /\ \E f1 \in CacheFaults, f2 \in CacheFaults :
         \E out \in ListOutcomes(pg, redis, fs, user_id, f1, f2) :
            /\ redis' = out.redis
            /\ last' = CallMade("list", "", user_id, NoDoc, out)
            /\ Called(f1 \/ f2)
    /\ UNCHANGED <<config, threads, pool, since_commit, pg, fs, local_save, now>>

list_conversations(user_id) ==
    Idle /\ list_conversations_call(user_id) /\ UNCHANGED session

get_conversation_call(conversation_id, user_id) ==
    /\ \E f1 \in CacheFaults, f2 \in CacheFaults :
         LET out == GetOutcome(pg, redis, fs, conversation_id, user_id, f1, f2)
         IN  /\ redis' = out.redis
             /\ last' = CallMade("get", conversation_id, user_id, NoDoc, out)
             /\ Called(f1 \/ f2)
    /\ UNCHANGED <<config, threads, pool, since_commit, pg, fs, local_save, now>>

get_conversation(conversation_id, user_id) ==
    Idle /\ get_conversation_call(conversation_id, user_id) /\ UNCHANGED session

\* a save or a delete that changed the tables has committed now
CommittedNow(db) == IF db # pg THEN 0 ELSE since_commit

save_conversation_call(conversation_id, conversation, user_id) ==
    /\ UsesBackend
    /\ \E fail_at \in BackendFaults(NumStatements(conversation)),
          f1 \in CacheFaults, f2 \in CacheFaults :
         LET out == SaveOutcome(pg, redis, conversation_id, conversation, user_id,
                                fail_at, f1, f2)
         IN  /\ pg' = out.db
             /\ redis' = out.redis
             /\ last' = CallMade("save", conversation_id, user_id, conversation, out)
             /\ Called(fail_at > 0 \/ f1 \/ f2)
             /\ since_commit' = CommittedNow(out.db)
    /\ UNCHANGED <<config, threads, pool, fs, local_save, now>>

save_conversation(conversation_id, conversation, user_id) ==
    Idle /\ save_conversation_call(conversation_id, conversation, user_id)
         /\ UNCHANGED session

delete_conversation_call(conversation_id, user_id) ==
    /\ UsesBackend
    /\ \E fail \in {b \in BOOLEAN : b => MayFail}, f1 \in CacheFaults :
         LET out == DeleteOutcome(pg, redis, conversation_id, user_id, fail, f1)
         IN  /\ pg' = out.db
             /\ redis' = out.redis
             /\ last' = CallMade("delete", conversation_id, user_id, NoDoc, out)
             /\ Called(fail \/ f1)
             /\ since_commit' = CommittedNow(out.db)
    /\ UNCHANGED <<config, threads, pool, fs, local_save, now>>

delete_conversation(conversation_id, user_id) ==
    Idle /\ delete_conversation_call(conversation_id, user_id) /\ UNCHANGED session

(* save_conversation in mode "local", one step per file operation *)

\* tmp_path.write_text(...): the file is opened (truncated) and part of the text is written
save_local_open(conversation_id, conversation) ==
    /\ Idle
    /\ mode = "local"
    /\ fs' = [fs EXCEPT ![tmp_path_of(conversation_id)] = PartialText(conversation)]
    /\ local_save' = [pc |-> "writing", conversation_id |-> conversation_id,
                      conversation |-> conversation]
    /\ last' = Call("save", conversation_id, NoUser, conversation, [kind |-> "running"], FALSE)
    /\ Called(FALSE)
    /\ UNCHANGED <<config, threads, session, pool, since_commit, pg, redis, now>>

\* write_text returns: the whole text is in the temporary file
save_local_written ==
    /\ local_save.pc = "writing"
    /\ fs' = [fs EXCEPT ![tmp_path_of(local_save.conversation_id)] =
                            JsonText(local_save.conversation)]
    /\ local_save' = [local_save EXCEPT !.pc = "written"]
    /\ UNCHANGED <<config, threads, session, pool, since_commit, pg, redis, now, nops, faults_left,
                   last, before>>

\* os.replace(tmp_path, path)
save_local_replace ==
    /\ local_save.pc = "written"
    /\ fs' = [fs EXCEPT ![path_of(local_save.conversation_id)] =
                            fs[tmp_path_of(local_save.conversation_id)],
                        ![tmp_path_of(local_save.conversation_id)] = NoFile]
    /\ local_save' = NoSave
    /\ last' = [last EXCEPT !.ret = Done]
    /\ UNCHANGED <<config, threads, session, pool, since_commit, pg, redis, now, nops, faults_left, before>>

\* variant for C21: delete_conversation with path.unlink() and no missing_ok, which
\* raises FileNotFoundError for a file that is not there
delete_local_missing_raises(conversation_id) ==
    /\ Idle
    /\ mode = "local"
    /\ fs' = [fs EXCEPT ![path_of(conversation_id)] = NoFile]
    /\ last' = Call("delete", conversation_id, NoUser, NoDoc,
                    IF fs[path_of(conversation_id)] = NoFile
                    THEN Raised("FileNotFoundError") ELSE Done, FALSE)
    /\ Called(FALSE)
    /\ UNCHANGED <<config, threads, session, pool, since_commit, pg, redis, local_save, now>>

\* delete_conversation in mode "local": path.unlink(missing_ok=True)
delete_local(conversation_id) ==
    /\ Idle
    /\ mode = "local"
    /\ fs' = [fs EXCEPT ![path_of(conversation_id)] = NoFile]
    /\ last' = Call("delete", conversation_id, NoUser, NoDoc, Done, FALSE)
    /\ Called(FALSE)
    /\ UNCHANGED <<config, threads, session, pool, since_commit, pg, redis, local_save, now>>

(* The environment *)

\* the process is killed inside a flat-file save and started again
Kill ==
    /\ local_save # NoSave
    /\ local_save' = NoSave
    /\ last' = [last EXCEPT !.ret = [kind |-> "killed"]]
    /\ UNCHANGED <<config, threads, session, pool, since_commit, pg, redis, fs, now, nops,
                   faults_left, before>>

\* cache time passes between two calls: one TTL tick
TickPasses ==
    /\ \E k \in Users \cup Ids : redis.ttl[k] > 0
    /\ redis' = ExpireTick(redis)
    /\ since_commit' = IF since_commit > RedisTtl THEN since_commit ELSE since_commit + 1
    /\ last' = Event("tick")
    /\ UNCHANGED <<config, threads, session, pool, pg, fs, local_save, now, nops, faults_left, before>>

Tick == nops < MaxOps /\ TickPasses

\* a day goes by between two calls
DayPasses ==
    /\ UsesBackend
    /\ nops < MaxOps
    /\ now < MaxDay
    /\ now' = now + 1
    /\ last' = Event("day")
    /\ UNCHANGED <<config, threads, session, pool, since_commit, pg, redis, fs, local_save, nops,
                   faults_left, before>>

Next ==
    \/ \E user_id \in UserArgs : list_conversations(user_id)
    \/ \E conversation_id \in Ids, user_id \in UserArgs :
         get_conversation(conversation_id, user_id)
    \/ \E conversation_id \in Ids, conversation \in Docs, user_id \in UserArgs :
         save_conversation(conversation_id, conversation, user_id)
    \/ \E conversation_id \in Ids, user_id \in UserArgs :
         delete_conversation(conversation_id, user_id)
    \/ \E conversation_id \in Ids, conversation \in Docs :
         save_local_open(conversation_id, conversation)
    \/ save_local_written
    \/ save_local_replace
    \/ \E conversation_id \in Ids : delete_local(conversation_id)
    \/ Kill
    \/ Tick
    \/ DayPasses

\* every mode, with and without failing commands
Spec == Init /\ [][Next]_vars

\* mode "local" alone: the flat-file store
NextLocal ==
    \/ \E user_id \in UserArgs : list_conversations(user_id)
    \/ \E conversation_id \in Ids, user_id \in UserArgs :
         get_conversation(conversation_id, user_id)
    \/ \E conversation_id \in Ids, conversation \in Docs :
         save_local_open(conversation_id, conversation)
    \/ save_local_written
    \/ save_local_replace
    \/ \E conversation_id \in Ids : delete_local(conversation_id)
    \/ Kill

InitLocal == Start({"local"}, 0)

SpecLocal == InitLocal /\ [][NextLocal]_vars

\* the calls of the modes "postgres" and "redis", and time
NextBackend ==
    \/ \E user_id \in UserArgs : list_conversations(user_id)
    \/ \E conversation_id \in Ids, user_id \in UserArgs :
         get_conversation(conversation_id, user_id)
    \/ \E conversation_id \in Ids, conversation \in Docs, user_id \in UserArgs :
         save_conversation(conversation_id, conversation, user_id)
    \/ \E conversation_id \in Ids, user_id \in UserArgs :
         delete_conversation(conversation_id, user_id)
    \/ DayPasses

\* mode "postgres" alone: the relational backend without a cache
InitPostgres == Start({"postgres"}, MaxFaults)

SpecPostgres == InitPostgres /\ [][NextBackend]_vars

\* mode "redis" with the cache available, and no command ever raising
NextCache == NextBackend \/ Tick

InitCache == Start({"redis"}, 0) /\ cache_available = TRUE

SpecCache == InitCache /\ [][NextCache]_vars

---------------------------------------------------------------------------
(* Properties.  "last" is the call that has just returned and "before" the   *)
(* stores as that call found them.                                            *)

\* what get(conversation_id, user_id) returns now, from the cache r, no command failing
GetNow(r, conversation_id, user_id) ==
    GetOutcome(pg, r, fs, conversation_id, user_id, FALSE, FALSE).ret

\* the results list_conversations(user_id) can return now, no command failing
ListNow(r, user_id) ==
    {out.ret : out \in ListOutcomes(pg, r, fs, user_id, FALSE, FALSE)}

\* what the relational backend lists for the user now
BackendListNow(user_id) ==
    PostgreSQLBackend_list_conversations(pg, user_id, HistoryDays, now)

\* the conversation ids of a list result
ListedIds(items) == {items[i][1] : i \in 1..Len(items)}

\* a save in mode "redis" has just returned normally and logged no cache failure
SavedThroughCache ==
    /\ UsesCache
    /\ last.op = "save"
    /\ last.ret = Done
    /\ ~last.warned

\* C1: in mode "redis", the document get(id, user) returns right after
\* save(id, doc, user) from the warm cache equals the document it returns after the
\* same save from a cleared cache (title, model, created_at, last_modified and the
\* messages with the same fields).
C1_WarmGetEqualsColdGet ==
    SavedThroughCache =>
        GetNow(redis, last.conversation_id, last.user_id)
            = GetNow(EmptyRedis, last.conversation_id, last.user_id)

\* C2: in mode "redis", a list served from the cache never omits a conversation the
\* relational backend lists for the user at that moment.
C2_CacheHitOmitsNoConversation ==
    UsesCache =>
        \A user_id \in Users : \A ret \in ListNow(redis, user_id) :
            \A listed \in BackendListNow(user_id) :
                ListedIds(listed) \subseteq ListedIds(ret.items)

\* the cached message list after DEL and a full write of the messages
FullRewrite(messages) == [i \in 1..Len(messages) |-> msg_with_seq(i - 1, messages[i])]

\* the saved message list is shorter than the cached one or differs from it in place
ShrinkOrDivergent(cached, messages) ==
    \/ Len(messages) < Len(cached)
    \/ \E i \in 1..Len(cached) :
         i <= Len(messages) /\ cached[i] # msg_with_seq(i - 1, messages[i])

\* C3: in mode "redis", after a save whose message list is shorter than, or differs
\* in place from, the list cached for the id, the cached list is what DEL and a full
\* write of doc.messages leave, and a following cache-hit get returns doc.messages.
C3_ShrinkConvergesToRewrite ==
    (/\ SavedThroughCache
     /\ before.redis.list[msg_key(last.conversation_id)] # <<>>
     /\ ShrinkOrDivergent(before.redis.list[msg_key(last.conversation_id)],
                          last.conversation.messages))
    => /\ redis.list[msg_key(last.conversation_id)]
            = FullRewrite(last.conversation.messages)
       /\ LET hit == RedisBackend_get_conversation_messages(
                         redis, last.conversation_id, last.user_id, FALSE).ret
          IN  hit # None =>
                  [i \in 1..Len(hit.value.messages) |->
                      [role |-> hit.value.messages[i].role,
                       content |-> hit.value.messages[i].content]]
                  = [i \in 1..Len(last.conversation.messages) |->
                      [role |-> last.conversation.messages[i].role,
                       content |-> last.conversation.messages[i].content]]

\* the user a conversation id was created under
OwnerOf(conversation_id) ==
    {r.user_client_id : r \in {q \in pg.conversations : q.conversation_id = conversation_id}}

\* C4: in modes "postgres" and "redis", for a conversation created under user A and
\* any other user B, get(id, B) returns absent and delete(id, B) removes nothing,
\* while get(id, A) returns the conversation and delete(id, A) removes it.
C4_OwnershipIsolation ==
    UsesBackend =>
        \A conversation_id \in Ids : \A a \in OwnerOf(conversation_id) :
            /\ GetNow(redis, conversation_id, a) # None
            /\ OwnerOf(conversation_id) = {a}
            /\ DeleteOutcome(pg, redis, conversation_id, a, FALSE, FALSE).db.conversations
                   = {r \in pg.conversations : r.conversation_id # conversation_id}
            /\ \A b \in Users \ {a} :
                 /\ GetNow(redis, conversation_id, b) = None
                 /\ DeleteOutcome(pg, redis, conversation_id, b, FALSE, FALSE).db = pg

\* the message rows of a conversation in a database
MessageRowsOf(db, conversation_id) ==
    {m \in db.messages : m.conversation_id = conversation_id}

\* the conversation rows of a conversation id in a database
ConversationRowsOf(db, conversation_id) ==
    {r \in db.conversations : r.conversation_id = conversation_id}

\* a delete by the owner of the conversation has just returned normally and logged
\* no cache failure
DeletedByOwner ==
    /\ UsesBackend
    /\ last.op = "delete"
    /\ last.ret = Done
    /\ ~last.warned
    /\ \E r \in ConversationRowsOf(before.pg, last.conversation_id) :
         r.user_client_id = last.user_id

C6_BackendBeforeCache ==
    (UsesCache /\ last.op \in {"save", "delete"} /\ last.user_id # NoUser) =>
        /\ last.conversation = BadDoc => last.ret = Raised("backend")
        /\ last.ret = Raised("backend") => redis = before.redis
        /\ redis # before.redis =>
             /\ last.ret = Done
             /\ last.op = "save" =>
                  \E r \in ConversationRowsOf(pg, last.conversation_id) :
                      /\ r.title = last.conversation.title
                      /\ r.model = last.conversation.model
                      /\ r.last_modified = fromisoformat(last.conversation.last_modified)

\* a save in mode "redis" whose relational write raised on a warm cache
C6_Witness ==
    /\ UsesCache
    /\ last.op = "save"
    /\ last.ret = Raised("backend")
    /\ before.redis # EmptyRedis

\* the message rows the insert loop writes for a document
RowsOfDocument(conversation_id, conversation) ==
    {[conversation_id |-> conversation_id, sequence_number |-> i - 1,
      role |-> conversation.messages[i].role,
      content |-> conversation.messages[i].content,
      timestamp |-> fromisoformat(conversation.messages[i].time)] :
        i \in 1..Len(conversation.messages)}

\* C7: PostgreSQLBackend.save_conversation is all-or-nothing: when a step fails (the
\* upsert, the delete, the insert of a message, the parsing of a timestamp) the
\* tables are what they were before the call; the upserted metadata, the removal of
\* the old messages and the new message rows are visible only together.
C7_SaveAllOrNothing ==
    (UsesBackend /\ last.op = "save") =>
        /\ last.conversation = BadDoc => last.ret # Done
        /\ last.ret # Done => pg = before.pg
        /\ last.ret = Done =>
             /\ \E r \in ConversationRowsOf(pg, last.conversation_id) :
                  /\ r.title = last.conversation.title
                  /\ r.model = last.conversation.model
                  /\ r.last_modified = fromisoformat(last.conversation.last_modified)
             /\ MessageRowsOf(pg, last.conversation_id)
                    = RowsOfDocument(last.conversation_id, last.conversation)

\* a save failed on its second message, after the upsert, the delete and one insert
\* of the transaction had run on a stored conversation with other metadata and
\* other messages
C7_Witness ==
    /\ mode = "postgres"
    /\ last.op = "save"
    /\ last.ret = Raised("backend")
    /\ last.conversation = BadDoc
    /\ \E r \in ConversationRowsOf(before.pg, last.conversation_id) :
         r.title # last.conversation.title
    /\ MessageRowsOf(before.pg, last.conversation_id) # {}
    /\ MessageRowsOf(before.pg, last.conversation_id)
           # RowsOfDocument(last.conversation_id,
                            [last.conversation EXCEPT !.messages = <<MsgHi>>])

\* a flat-file save is under way, or the process was killed inside it
SaveInterrupted ==
    /\ mode = "local"
    /\ last.op = "save"
    /\ last.ret.kind \in {"running", "killed"}

\* C8: in mode "local", while a save(id, doc) is under way and after the process is
\* killed at any point of it, get(id) returns the complete previous document (absent
\* if there was none); list returns the documents of the .json files and nothing
\* from a temporary file; after a save that completes, get(id) returns doc.
C8_FlatFileAtomicWrite ==
    mode = "local" =>
        /\ SaveInterrupted =>
             /\ GetNow(redis, last.conversation_id, NoUser)
                    = _safe_read_json(before.fs, <<last.conversation_id, ".json">>)
             /\ before.fs[<<last.conversation_id, ".json">>] # NoFile =>
                    GetNow(redis, last.conversation_id, NoUser) # None
        /\ \A ret \in ListNow(redis, NoUser) :
             /\ \A i \in 1..Len(ret.items) :
                  fs[<<ret.items[i][1], ".json">>] = JsonText(ret.items[i][2])
             /\ Len(ret.items) = Cardinality({c \in Ids : fs[<<c, ".json">>] # NoFile})
        /\ (last.op = "save" /\ last.ret = Done) =>
             GetNow(redis, last.conversation_id, NoUser) = Returned(last.conversation)

\* the process was killed inside a save that would have replaced a stored document
\* by another, with the temporary file left behind
C8_Witness ==
    /\ SaveInterrupted
    /\ last.ret.kind = "killed"
    /\ before.fs[<<last.conversation_id, ".json">>] # NoFile
    /\ before.fs[<<last.conversation_id, ".json">>] # JsonText(last.conversation)
    /\ fs[<<last.conversation_id, ".json.tmp">>] # NoFile

\* C9: for every conversation the message rows of the relational store carry the
\* sequence numbers 0..n-1, each once, and the j-th element of the cached message
\* list (counting from 0) carries sequence_number j, written in full or appended.
C9_SequenceContiguity ==
    \A conversation_id \in Ids :
        /\ LET rows == MessageRowsOf(pg, conversation_id)
           IN  /\ {m.sequence_number : m \in rows} = 0..(Cardinality(rows) - 1)
               /\ \A m1 \in rows, m2 \in rows :
                    m1.sequence_number = m2.sequence_number => m1 = m2
        /\ LET cached == LRANGE(redis, msg_key(conversation_id))
           IN  \A j \in 1..Len(cached) : cached[j].sequence_number = j - 1

\* a save appended a message to a cached message list, and the relational store holds
\* the rows of both messages
C9_Witness ==
    /\ SavedThroughCache
    /\ LRANGE(before.redis, msg_key(last.conversation_id)) # <<>>
    /\ LLEN(before.redis, msg_key(last.conversation_id))
           < LLEN(redis, msg_key(last.conversation_id))
    /\ Cardinality(MessageRowsOf(pg, last.conversation_id)) = MaxMsgs

\* role and content of the messages, in order
RolesAndContents(messages) ==
    [i \in 1..Len(messages) |-> [role |-> messages[i].role, content |-> messages[i].content]]

\* a save by the owner of the conversation has just returned normally
SavedByOwner ==
    /\ UsesBackend
    /\ last.op = "save"
    /\ last.ret = Done
    /\ last.user_id \in OwnerOf(last.conversation_id)

\* C10: after save(id, owner, doc) succeeds, get(id, owner) on the relational backend
\* returns the messages of doc, same roles and contents in the same order, whatever
\* was stored for id before; no message of an earlier save survives.
C10_ReplaceAllSave ==
    SavedByOwner =>
        LET got == PostgreSQLBackend_get_conversation(
                       pg, last.conversation_id, last.user_id)
        IN  /\ got # None
            /\ RolesAndContents(got.value.messages)
                   = RolesAndContents(last.conversation.messages)

\* a save replaced stored messages by a list that is no shorter and begins differently,
\* and another by a shorter list
C10_Witness ==
    /\ SavedByOwner
    /\ mode = "postgres"
    /\ Cardinality(MessageRowsOf(before.pg, last.conversation_id)) = MaxMsgs
    /\ Len(last.conversation.messages) = 1
    /\ MessageRowsOf(before.pg, last.conversation_id)
           \cap RowsOfDocument(last.conversation_id, last.conversation) = {}

\* what get(conversation_id, user_id) returned before the latest call, no command failing
GetBefore(conversation_id, user_id) ==
    GetOutcome(before.pg, before.redis, before.fs, conversation_id, user_id,
               FALSE, FALSE).ret

\* the latest call saved again, with messages and a later last_modified, a conversation
\* that a save with empty messages had created; it returned normally and logged no
\* cache failure
SavedAgainWithMessages ==
    /\ last.op = "save"
    /\ last.ret = Done
    /\ ~last.warned
    /\ GetBefore(last.conversation_id, last.user_id) # None
    /\ GetBefore(last.conversation_id, last.user_id).value.messages = <<>>
    /\ UsesCache => LRANGE(before.redis, msg_key(last.conversation_id)) = <<>>
    /\ last.conversation.messages # <<>>
    /\ fromisoformat(last.conversation.last_modified)
           > fromisoformat(GetBefore(last.conversation_id, last.user_id).value.last_modified)

\* C11: in each mode, after a conversation created by a save with empty messages is
\* saved again with messages appended and a later last_modified, get(id) returns the
\* appended messages in the order given, and the last_modified, the title and the
\* model of the latest save.
C11_SaveGetRoundTrip ==
    SavedAgainWithMessages =>
        LET got == GetNow(redis, last.conversation_id, last.user_id)
        IN  /\ got # None
            /\ RolesAndContents(got.value.messages)
                   = RolesAndContents(last.conversation.messages)
            /\ fromisoformat(got.value.last_modified)
                   = fromisoformat(last.conversation.last_modified)
            /\ got.value.title = last.conversation.title
            /\ got.value.model = last.conversation.model

\* a new chat was saved again with the whole chat, under another title and model
C11_Witness ==
    /\ SavedAgainWithMessages
    /\ Len(last.conversation.messages) = MaxMsgs
    /\ GetBefore(last.conversation_id, last.user_id).value.title # last.conversation.title
    /\ GetBefore(last.conversation_id, last.user_id).value.model # last.conversation.model

\* what the relational backend alone makes of the save the latest call asked for,
\* none of its statements failing
BackendAloneSaveReturn ==
    IF PostgreSQLBackend_save_conversation(
           before.pg, last.conversation_id, last.user_id, last.conversation, 0).raised
    THEN Raised("backend")
    ELSE Done

\* C12: in mode "redis", a failure of a cache operation during a save (here a field
\* the cache step misses in the document) never makes the facade call raise or return
\* another result than the relational backend alone gives.
C12_CacheFailureKeepsBackendOutcome ==
    (UsesCache /\ last.op = "save" /\ last.user_id # NoUser) =>
        last.ret = BackendAloneSaveReturn

\* the latest call, a save or a delete in mode "redis", committed in the relational
\* store and logged the failure of a cache write
CacheWriteFailedAfterCommit ==
    /\ UsesCache
    /\ last.op \in {"save", "delete"}
    /\ last.ret = Done
    /\ last.warned

\* two results of get show the same conversation: both absent, or the same title,
\* model and messages (roles and contents in order)
SameConversation(got1, got2) ==
    IF got1 = None \/ got2 = None THEN got1 = got2
    ELSE /\ got1.value.title = got2.value.title
         /\ got1.value.model = got2.value.model
         /\ RolesAndContents(got1.value.messages) = RolesAndContents(got2.value.messages)

\* C13: in mode "redis", when the cache write of a save or a delete fails after the
\* relational backend committed, the next get of the conversation shows what the
\* relational backend holds: the cache does not return the pre-save or the deleted
\* conversation as a hit.
C13_FailedCacheWriteDegradesToMiss ==
    CacheWriteFailedAfterCommit =>
        SameConversation(GetNow(redis, last.conversation_id, last.user_id),
                         PostgreSQLBackend_get_conversation(
                             pg, last.conversation_id, last.user_id))

---------------------------------------------------------------------------
(* The three strategies side by side: one user makes the same calls through a  *)
(* facade of each mode.  fs is the directory of the facade in mode "local"; pg  *)
(* is the database of the facades in the modes "postgres" and "redis", which    *)
(* run the same statements on it; redis is the cache of the facade in mode      *)
(* "redis".                                                                     *)

TheUser == "userA"

\* save_conversation through each facade (the flat-file save runs to its end)
save_in_every_mode(conversation_id, conversation) ==
    /\ Idle
    /\ UsesCache
    /\ LET out == SaveOutcome(pg, redis, conversation_id, conversation, TheUser,
                              0, FALSE, FALSE)
       IN  /\ pg' = out.db
           /\ redis' = out.redis
           /\ last' = Call("save_in_every_mode", conversation_id, TheUser, conversation,
                           out.ret, out.warned)
           /\ since_commit' = CommittedNow(out.db)
    /\ fs' = [fs EXCEPT ![path_of(conversation_id)] = JsonText(conversation),
                        ![tmp_path_of(conversation_id)] = NoFile]
    /\ Called(FALSE)
    /\ UNCHANGED <<config, threads, session, pool, local_save, now>>

\* delete_conversation through each facade
delete_in_every_mode(conversation_id) ==
    /\ Idle
    /\ UsesCache
    /\ LET out == DeleteOutcome(pg, redis, conversation_id, TheUser, FALSE, FALSE)
       IN  /\ pg' = out.db
           /\ redis' = out.redis
           /\ last' = Call("delete_in_every_mode", conversation_id, TheUser, NoDoc,
                           out.ret, out.warned)
           /\ since_commit' = CommittedNow(out.db)
    /\ fs' = [fs EXCEPT ![path_of(conversation_id)] = NoFile]
    /\ Called(FALSE)
    /\ UNCHANGED <<config, threads, session, pool, local_save, now>>

\* the calls of the user; a list or a get changes only the cache of mode "redis"
NextModes ==
    \/ \E conversation_id \in Ids, conversation \in Docs :
         save_in_every_mode(conversation_id, conversation)
    \/ \E conversation_id \in Ids : delete_in_every_mode(conversation_id)
    \/ list_conversations(TheUser)
    \/ \E conversation_id \in Ids : get_conversation(conversation_id, TheUser)

InitModes == Start({"redis"}, 0) /\ cache_available = TRUE

SpecModes == InitModes /\ [][NextModes]_vars

\* what list_conversations() returns in mode "local"
ListLocal == ReturnedList(ReadSorted(fs, _iter_json_files(fs)))

\* C14: for the same calls of one user, the modes "local", "postgres" and "redis"
\* return the same results: the same conversations in the same order from list, with
\* the same message content in the listed documents, and the same documents from get.
C14_StrategiesEquivalent ==
    /\ \A conversation_id \in Ids :
         /\ _safe_read_json(fs, path_of(conversation_id))
                = PostgreSQLBackend_get_conversation(pg, conversation_id, TheUser)
         /\ GetNow(redis, conversation_id, TheUser)
                = PostgreSQLBackend_get_conversation(pg, conversation_id, TheUser)
    /\ \A listed \in BackendListNow(TheUser) : ReturnedList(listed) = ListLocal
    /\ \A ret \in ListNow(redis, TheUser) : ret = ListLocal

\* the latest event is a call of the facade
FacadeCall == last.op \in {"list", "get", "save", "delete"}

\* C15: in the modes "postgres" and "redis", list, get, save and delete called without
\* a user_id raise a configuration error and leave the relational store and the cache
\* as they were; in mode "local" the calls do not raise and what list and get return
\* does not depend on the user_id passed.
C15_UserIdRequired ==
    /\ (UsesBackend /\ FacadeCall /\ last.user_id = NoUser) =>
           /\ last.ret = Raised("ValueError")
           /\ pg = before.pg
           /\ redis = before.redis
    /\ (mode = "local" /\ FacadeCall) =>
           /\ last.ret.kind # "raised"
           /\ \A user_id \in Users :
                /\ ListNow(redis, user_id) = ListNow(redis, NoUser)
                /\ \A conversation_id \in Ids :
                     GetNow(redis, conversation_id, user_id)
                         = GetNow(redis, conversation_id, NoUser)

\* a save without a user_id on stores that hold a conversation
C15_Witness ==
    /\ UsesCache
    /\ last.op = "save"
    /\ last.user_id = NoUser
    /\ last.conversation.messages # <<>>
    /\ before.pg # EmptyDb
    /\ before.redis # EmptyRedis

\* the latest call is a delete, returned normally, by a user who is not the owner of
\* the conversation
DeletedByOther ==
    /\ UsesBackend
    /\ last.op = "delete"
    /\ last.ret = Done
    /\ ConversationRowsOf(before.pg, last.conversation_id) # {}
    /\ \A r \in ConversationRowsOf(before.pg, last.conversation_id) :
         r.user_client_id # last.user_id

\* C16: delete(id, B) for a conversation owned by another user A leaves A's metadata
\* row and message rows in the relational store and, in mode "redis", A's cached
\* metadata entry and the cached message list of id as they were.
C16_DeleteByOtherChangesNothing ==
    DeletedByOther =>
        /\ pg = before.pg
        /\ UsesCache =>
             /\ \A r \in ConversationRowsOf(before.pg, last.conversation_id) :
                  redis.zset[conv_key(r.user_client_id)]
                      = before.redis.zset[conv_key(r.user_client_id)]
             /\ LRANGE(redis, msg_key(last.conversation_id))
                    = LRANGE(before.redis, msg_key(last.conversation_id))

\* the latest call is a save, returned normally without a logged cache failure, on a
\* conversation id that was stored
SavedExisting ==
    /\ UsesBackend
    /\ last.op = "save"
    /\ last.ret = Done
    /\ ~last.warned
    /\ ConversationRowsOf(before.pg, last.conversation_id) # {}

\* C17: a save on an existing conversation id updates title, model and last_modified
\* of the stored row and leaves created_at and the owning user as they were, whatever
\* created_at the document carries; the created_at that get returns, from the backend
\* or from the cache, is the one of the first save.
C17_CreatedAtPreserved ==
    SavedExisting =>
        \A old \in ConversationRowsOf(before.pg, last.conversation_id) :
            /\ ConversationRowsOf(pg, last.conversation_id)
                   = {[old EXCEPT !.title = last.conversation.title,
                                  !.model = last.conversation.model,
                                  !.last_modified =
                                      fromisoformat(last.conversation.last_modified)]}
            /\ LET got == GetNow(redis, last.conversation_id, old.user_client_id)
               IN  /\ got # None
                   /\ fromisoformat(got.value.created_at) = old.created_at

\* the conversations of the user whose created_at is not older than the window
WithinWindow(user_id) ==
    {r.conversation_id : r \in {q \in pg.conversations :
        q.user_client_id = user_id /\ q.created_at >= now - HistoryDays}}

\* C18: list(user) with a window of HistoryDays days returns a conversation of the
\* user if and only if its created_at is not older than now minus the window, served
\* by the relational backend or from the cache.
C18_RetentionFilter ==
    UsesBackend =>
        \A user_id \in Users : \A ret \in ListNow(redis, user_id) :
            ListedIds(ret.items) = WithinWindow(user_id)

\* C19: in the modes "postgres" and "redis", list(user) returns only conversations
\* owned by the user, ordered by last_modified descending, each with an empty message
\* list, from the relational backend or from a cache hit.
C19_ListOwnedOrderedEmpty ==
    UsesBackend =>
        \A user_id \in Users : \A ret \in ListNow(redis, user_id) :
            /\ \A i \in 1..Len(ret.items) :
                 /\ OwnerOf(ret.items[i][1]) = {user_id}
                 /\ ret.items[i][2].messages = <<>>
            /\ \A i \in 1..Len(ret.items), j \in 1..Len(ret.items) :
                 i < j => fromisoformat(ret.items[i][2].last_modified)
                              >= fromisoformat(ret.items[j][2].last_modified)

---------------------------------------------------------------------------
(* Mode "local" with files that go bad on disk *)

\* a file path.read_text() cannot read
Unreadable == [kind |-> "unreadable", complete |-> FALSE, doc |-> NoDoc]

\* something outside the program truncates a conversation file, or leaves an
\* unreadable file under a conversation's name
file_corrupted(conversation_id) ==
    /\ mode = "local"
    /\ local_save = NoSave
    /\ fs[path_of(conversation_id)] \notin {Unreadable}
    /\ \/ /\ fs[path_of(conversation_id)] # NoFile
          /\ fs[path_of(conversation_id)].complete
          /\ fs' = [fs EXCEPT ![path_of(conversation_id)] = PartialText(@.doc)]
       \/ fs' = [fs EXCEPT ![path_of(conversation_id)] = Unreadable]
    /\ last' = Event("corrupt")
    /\ UNCHANGED <<config, threads, session, pool, since_commit, pg, redis, local_save, now, nops,
                   faults_left, before>>

NextLocalCorrupt ==
    \/ NextLocal
    \/ \E conversation_id \in Ids : file_corrupted(conversation_id)

SpecLocalCorrupt == InitLocal /\ [][NextLocalCorrupt]_vars

\* the conversation ids whose file is not valid JSON or cannot be read
CorruptIds ==
    {c \in Ids : fs[<<c, ".json">>] # NoFile /\ ~fs[<<c, ".json">>].complete}

\* the conversation ids whose file holds a whole document
ValidIds ==
    {c \in Ids : fs[<<c, ".json">>] # NoFile /\ fs[<<c, ".json">>].complete}

\* C20: in mode "local", a conversation file that is unreadable or not valid JSON is
\* never raised to the caller: list omits it and returns every valid document, and
\* get of its id returns absent.
C20_CorruptFilesSkipped ==
    mode = "local" =>
        /\ FacadeCall => last.ret.kind # "raised"
        /\ \A ret \in ListNow(redis, NoUser) :
             /\ ret.kind = "list"
             /\ ListedIds(ret.items) = ValidIds
             /\ \A i \in 1..Len(ret.items) :
                  ret.items[i][2] = fs[<<ret.items[i][1], ".json">>].doc
        /\ \A conversation_id \in CorruptIds :
             GetNow(redis, conversation_id, NoUser) = None
        /\ (last.op = "list" /\ before.fs = fs) => last.ret \in ListNow(redis, NoUser)
        /\ (last.op = "get" /\ before.fs = fs) =>
               last.ret = GetNow(redis, last.conversation_id, NoUser)

\* list returned the one valid document of a directory that also holds a corrupt file
C20_Witness ==
    /\ mode = "local"
    /\ last.op = "list"
    /\ before.fs = fs
    /\ CorruptIds # {}
    /\ ValidIds # {}
    /\ Len(last.ret.items) = 1

---------------------------------------------------------------------------
(* Delete in the flat-file store *)

\* a delete in mode "local" has just returned
DeletedLocal == mode = "local" /\ last.op = "delete"

\* C21: in mode "local", delete(id) removes the document of id, so that get(id)
\* returns absent and list no longer contains id; it raises nothing, also when id is
\* absent, and it leaves every other file as it was (a delete of an absent id changes
\* nothing, so a second delete is a no-op).
C21_LocalDelete ==
    DeletedLocal =>
        /\ last.ret = Done
        /\ GetNow(redis, last.conversation_id, NoUser) = None
        /\ \A ret \in ListNow(redis, NoUser) :
             last.conversation_id \notin ListedIds(ret.items)
        /\ \A f \in FileNames \ {path_of(last.conversation_id)} : fs[f] = before.fs[f]
        /\ before.fs[path_of(last.conversation_id)] = NoFile => fs = before.fs

\* a delete has removed a document that was stored
C21_Witness ==
    /\ DeletedLocal
    /\ before.fs[path_of(last.conversation_id)] # NoFile
    /\ before.fs[path_of(last.conversation_id)].complete
    /\ fs[path_of(last.conversation_id)] = NoFile

---------------------------------------------------------------------------
(* The connection pool.  Every PostgreSQLBackend method is                   *)
(*     conn = self._get_conn()                                               *)
(*     try: <body>  finally: self._put_conn(conn)                            *)
(* and is taken here one step at a time: the connection is checked out, the  *)
(* body runs (and returns or raises), the connection is put back.            *)

\* psycopg2.pool.SimpleConnectionPool(1, 5, connection_string): maxconn
maxconn == 5

\* the calls of the PostgreSQLBackend methods the facade makes
BackendCalls ==
    {[op |-> "list", conversation_id |-> "", user_id |-> u, conversation |-> NoDoc] :
        u \in Users}
    \cup {[op |-> o, conversation_id |-> c, user_id |-> u, conversation |-> NoDoc] :
            o \in {"get", "delete"}, c \in Ids, u \in Users}
    \cup {[op |-> "save", conversation_id |-> c, user_id |-> u, conversation |-> d] :
            c \in Ids, u \in Users, d \in Docs}

\* how the body of a method can end: the tables after it, what the method returns
\* or raises, and whether a command failed in it
BodyOutcomes(call) ==
    LET broken == IF MayFail
                  THEN {[db |-> pg, ret |-> Raised("backend"), failed |-> TRUE]}
                  ELSE {}
    IN  IF call.op = "list"
        THEN {[db |-> pg, ret |-> ReturnedList(c), failed |-> FALSE] :
                c \in PostgreSQLBackend_list_conversations(
                          pg, call.user_id, HistoryDays, now)} \cup broken
        ELSE IF call.op = "get"
        THEN {[db |-> pg,
               ret |-> PostgreSQLBackend_get_conversation(
                           pg, call.conversation_id, call.user_id),
               failed |-> FALSE]} \cup broken
        ELSE IF call.op = "save"
        THEN {LET saved == PostgreSQLBackend_save_conversation(
                               pg, call.conversation_id, call.user_id,
                               call.conversation, fail_at)
              IN  [db |-> saved.db,
                   ret |-> IF saved.raised THEN Raised("backend") ELSE Done,
                   failed |-> fail_at > 0] :
                fail_at \in BackendFaults(NumStatements(call.conversation))}
        ELSE {LET deleted == PostgreSQLBackend_delete_conversation(
                                 pg, call.conversation_id, call.user_id, fail)
              IN  [db |-> deleted.db,
                   ret |-> IF deleted.raised THEN Raised("backend") ELSE Done,
                   failed |-> fail] :
                fail \in {b \in BOOLEAN : b => MayFail}}

\* variant for C22: self._put_conn(conn) after the body and not in a "finally", so
\* that it is skipped when the body raises
put_conn_on_return_only(raised) == ~raised

\* try: ... finally: self._put_conn(conn): whether the method puts the connection
\* back when its body has ended (raised: by an exception)
puts_conn_back(raised) == TRUE

\* conn = self._get_conn(): pool.getconn() raises PoolError when maxconn connections
\* are checked out, and whatever connecting raises when it has to open a connection
_get_conn(call) ==
    /\ Idle
    /\ UsesBackend
    /\ \E connect_fails \in {b \in BOOLEAN : b => MayFail} :
         IF pool_used = maxconn \/ connect_fails
         THEN /\ last' = Call(call.op, call.conversation_id, call.user_id,
                              call.conversation,
                              Raised(IF pool_used = maxconn THEN "PoolError"
                                     ELSE "backend"), FALSE)
              /\ Called(connect_fails)
              /\ UNCHANGED pool
         ELSE /\ pool_used' = pool_used + 1
              /\ backend_call' = [pc |-> "try", op |-> call.op,
                                  conversation_id |-> call.conversation_id,
                                  user_id |-> call.user_id,
                                  conversation |-> call.conversation,
                                  ret |-> [kind |-> "running"]]
              /\ last' = Call(call.op, call.conversation_id, call.user_id,
                              call.conversation, [kind |-> "running"], FALSE)
              /\ Called(FALSE)
    /\ UNCHANGED <<config, threads, session, since_commit, pg, redis, fs, local_save, now>>

\* the body of the method, inside "try:"
backend_body ==
    /\ backend_call.pc = "try"
    /\ \E out \in BodyOutcomes(backend_call) :
         /\ pg' = out.db
         /\ since_commit' = IF out.db # pg THEN 0 ELSE since_commit
         /\ faults_left' = IF out.failed THEN faults_left - 1 ELSE faults_left
         /\ IF puts_conn_back(out.ret.kind = "raised")
            THEN /\ backend_call' = [backend_call EXCEPT !.pc = "finally", !.ret = out.ret]
                 /\ UNCHANGED last
            ELSE /\ backend_call' = NoBackendCall
                 /\ last' = [last EXCEPT !.ret = out.ret]
    /\ UNCHANGED <<config, threads, session, redis, fs, local_save, now, nops, before, pool_used>>

\* finally: self._put_conn(conn), and the method returns or lets the exception go on
_put_conn ==
    /\ backend_call.pc = "finally"
    /\ pool_used' = pool_used - 1
    /\ backend_call' = NoBackendCall
    /\ last' = [last EXCEPT !.ret = backend_call.ret]
    /\ UNCHANGED <<config, threads, session, since_commit, pg, redis, fs, local_save, now, nops, faults_left,
                   before>>

NextPool ==
    \/ \E call \in BackendCalls : _get_conn(call)
    \/ backend_body
    \/ _put_conn
    \/ DayPasses

\* the relational backend alone, its methods step by step
SpecPool == InitPostgres /\ [][NextPool]_vars

\* the connections the methods in progress hold
HeldConnections == IF backend_call.pc \in {"try", "finally"} THEN 1 ELSE 0

\* C22: every PostgreSQLBackend method (list, get, save, delete) that checked a
\* connection out of the pool puts it back however it ends: the number of checked-out
\* connections is the number of methods in progress, so it is 0 whenever no method
\* is in progress, and it never exceeds the pool's maximum of 5.
C22_ConnectionsReturned ==
    /\ pool_used = HeldConnections
    /\ backend_call = NoBackendCall => pool_used = 0
    /\ pool_used <= maxconn

\* a save has raised inside its transaction and has ended, and another call was
\* made before it
C22_Witness ==
    /\ backend_call = NoBackendCall
    /\ last.op = "save"
    /\ last.ret = Raised("backend")
    /\ before.pg # EmptyDb
    /\ pool_used = 0

---------------------------------------------------------------------------
(* One user at work on one conversation, for longer: the owner saves the     *)
(* chat as it grows or as it was, reads it and deletes it, while the TTLs of *)
(* the cache run.                                                            *)

\* facade calls per behaviour of the owner
MaxOwnerOps == 5

TheChat == "c1"

\* the documents of the chat: new, and with a title, at each length
OwnerDocs ==
    {Document(meta, SubSeq(Chat, 1, n)) :
        meta \in {m \in Metas : m.created_at = Iso(0)}, n \in 0..MaxMsgs}

OwnerIdle == local_save = NoSave /\ backend_call = NoBackendCall /\ nops < MaxOwnerOps

owner_save(conversation) ==
    OwnerIdle /\ save_conversation_call(TheChat, conversation, TheUser) /\ UNCHANGED session

owner_get == OwnerIdle /\ get_conversation_call(TheChat, TheUser) /\ UNCHANGED session

owner_list == OwnerIdle /\ list_conversations_call(TheUser) /\ UNCHANGED session

owner_delete == OwnerIdle /\ delete_conversation_call(TheChat, TheUser) /\ UNCHANGED session

OwnerTick == nops < MaxOwnerOps /\ TickPasses

NextOwner ==
    \/ \E conversation \in OwnerDocs : owner_save(conversation)
    \/ owner_get
    \/ owner_list
    \/ owner_delete
    \/ OwnerTick

\* mode "redis" with the cache available; cache writes may fail
InitOwner == Start({"redis"}, MaxFaults) /\ cache_available = TRUE

SpecOwner == InitOwner /\ [][NextOwner]_vars

\* id, title, model and instant of last_modified of the items of a list result
ListedMetadata(items) ==
    {<<items[i][1], items[i][2].title, items[i][2].model,
       fromisoformat(items[i][2].last_modified)>> : i \in 1..Len(items)}

\* the latest call is a read of a user that returned
ReadReturned ==
    /\ last.op \in {"get", "list"}
    /\ last.user_id # NoUser
    /\ last.ret.kind # "raised"

\* C23: in mode "redis", a read served more than TTL after the latest commit of the
\* relational backend returns what the backend holds (title, model and messages of
\* the conversation for a get, the metadata of the user's conversations for a list):
\* no cached entry that disagrees with the backend is returned that late, whatever
\* reads happened in between.
C23_BoundedStaleness ==
    (UsesCache /\ ReadReturned /\ since_commit > RedisTtl) =>
        IF last.op = "get"
        THEN SameConversation(last.ret,
                              PostgreSQLBackend_get_conversation(
                                  pg, last.conversation_id, last.user_id))
        ELSE \E listed \in BackendListNow(last.user_id) :
                ListedMetadata(last.ret.items) = ListedMetadata(listed)

---------------------------------------------------------------------------
(* The chat page (app.py).  Every interaction reruns main(): ensure_state,  *)
(* the sidebar with the widget that was used, sync_selected_model_to_       *)
(* current, the transcript and the chat input.  session is                  *)
(* st.session_state; session.pc is the part of main() that runs next, and   *)
(* session.did the part that made the latest call of the History Manager.   *)
(* Each step makes at most one call of the History Manager; a handler that  *)
(* saves changes session.conversations first and calls save_conversation in *)
(* the step after (session.save_id is the conversation it passes).          *)

\* calls of the History Manager per behaviour of the page
MaxUiOps == 5
\* the page stops sending when the chat has this many messages
MaxUiMsgs == 4

DEFAULT_MODEL == "gpt-4o-mini"
models_list == {"gpt-4o-mini", "gpt-4o"}
\* the prompts typed, and the names typed into the rename box
Prompts == {"Hi"}
NewTitles == {"Hi"}

\* get_user_info()['user_id']: the signed-in user; the flat-file store ignores it
UiUser == IF mode = "local" THEN NoUser ELSE TheUser

\* call_llm_stub(model, messages)
call_llm_stub(model, prompt) ==
    IF model = "gpt-4o-mini" THEN "(Stubbed gpt-4o-mini) You said: Hi"
    ELSE "(Stubbed gpt-4o) You said: Hi"

\* title_from_first_user_message(msg) of a short prompt
title_from_first_user_message(msg) == msg

\* save_conversation in mode "local", from the call to its return
save_local_call(conversation_id, conversation) ==
    /\ mode = "local"
    /\ fs' = [fs EXCEPT ![path_of(conversation_id)] = JsonText(conversation),
                        ![tmp_path_of(conversation_id)] = NoFile]
    /\ last' = Call("save", conversation_id, NoUser, conversation, Done, FALSE)
    /\ Called(FALSE)
    /\ UNCHANGED <<config, threads, pool, since_commit, pg, redis, local_save, now>>

\* delete_conversation in mode "local", from the call to its return
delete_local_call(conversation_id) ==
    /\ mode = "local"
    /\ fs' = [fs EXCEPT ![path_of(conversation_id)] = NoFile]
    /\ last' = Call("delete", conversation_id, NoUser, NoDoc, Done, FALSE)
    /\ Called(FALSE)
    /\ UNCHANGED <<config, threads, pool, since_commit, pg, redis, local_save, now>>

\* HISTORY.save_conversation(cid, convo, user_id=user_id)
HISTORY_save_conversation(conversation_id, conversation) ==
    IF mode = "local" THEN save_local_call(conversation_id, conversation)
    ELSE save_conversation_call(conversation_id, conversation, UiUser)

\* HISTORY.delete_conversation(cid, user_id=user_id)
HISTORY_delete_conversation(conversation_id) ==
    IF mode = "local" THEN delete_local_call(conversation_id)
    ELSE delete_conversation_call(conversation_id, UiUser)

\* the page may call the History Manager
UiCalls == nops < MaxUiOps

\* the stores do not change in a step of the page that calls nothing
NoCall ==
    UNCHANGED <<config, threads, pool, since_commit, pg, redis, fs, local_save, now, nops,
                faults_left, last, before>>

\* ensure_state on an empty st.session_state, given what list_conversations returned:
\* the newest chat without messages becomes the current one (sort by created_at,
\* reverse=True, is stable); without such a chat new_chat() runs next
ensure_state(items) ==
    LET conversations ==
            [c \in Ids |->
                IF \E i \in 1..Len(items) : items[i][1] = c
                THEN items[CHOOSE i \in 1..Len(items) : items[i][1] = c][2]
                ELSE NoDoc]
        empty_chats == {i \in 1..Len(items) : items[i][2].messages = <<>>}
        newest == CHOOSE i \in empty_chats :
                      \A j \in empty_chats :
                          \/ items[i][2].created_at.inst > items[j][2].created_at.inst
                          \/ /\ items[i][2].created_at.inst = items[j][2].created_at.inst
                             /\ i <= j
    IN  [pc |-> IF empty_chats # {} THEN "sync" ELSE "new_chat",
         did |-> "ensure_state",
         conversations |-> conversations,
         current_id |-> IF empty_chats # {} THEN items[newest][1] ELSE "",
         selected_model |-> DEFAULT_MODEL,
         save_id |-> ""]

\* a browser session starts (the first visit, or the page is loaded again):
\* ensure_state lists the user's conversations
ui_session_start ==
    /\ session.pc \in {"closed", "idle"}
    /\ UiCalls
    /\ list_conversations_call(UiUser)
    /\ session' = ensure_state(last'.ret.items)

\* conversation ids no chat has: str(uuid.uuid4())[:8] is a new one
FreshIds ==
    {c \in Ids : /\ session.conversations[c] = NoDoc
                 /\ fs[path_of(c)] = NoFile
                 /\ \A row \in pg.conversations : row.conversation_id # c}

\* new_chat(), up to its call of save_conversation
ui_new_chat ==
    /\ session.pc = "new_chat"
    /\ UiCalls
    /\ \E cid \in FreshIds :
         LET convo == [title |-> "New chat", model |-> session.selected_model,
                       messages |-> <<>>, created_at |-> isoformat(now),
                       last_modified |-> isoformat(now)]
         IN  session' = [session EXCEPT !.pc = "save_then_sync", !.did = "new_chat",
                                        !.conversations[cid] = convo,
                                        !.current_id = cid, !.save_id = cid]
    /\ NoCall

\* sync_selected_model_to_current(), up to its call of save_conversation if it
\* makes one; after it the transcript is shown and the page waits for the user
ui_sync_selected_model_to_current ==
    /\ session.pc = "sync"
    /\ LET convo == session.conversations[session.current_id]
           synced == [convo EXCEPT !.model = session.selected_model]
       IN  IF convo.model # session.selected_model
           THEN /\ UiCalls
                /\ session' = [session EXCEPT
                                   !.pc = "save_then_idle", !.did = "sync",
                                   !.conversations[session.current_id] = synced,
                                   !.save_id = session.current_id]
           ELSE session' = [session EXCEPT !.pc = "idle"]
    /\ NoCall

\* HISTORY.save_conversation(cid, st.session_state.conversations[cid], user_id=user_id)
\* of new_chat, sync_selected_model_to_current, render_chat_items and
\* handle_chat_input
ui_save_conversation ==
    /\ session.pc \in {"save_then_sync", "save_then_idle"}
    /\ HISTORY_save_conversation(session.save_id, session.conversations[session.save_id])
    /\ session' = [session EXCEPT
                       !.pc = IF @ = "save_then_sync" THEN "sync" ELSE "idle",
                       !.save_id = ""]

\* render_model_picker: the user chooses another model
ui_pick_model(model) ==
    /\ session.pc = "idle"
    /\ model # session.selected_model
    /\ session' = [session EXCEPT !.pc = "sync", !.selected_model = model]
    /\ NoCall

\* render_sidebar: the button "New chat"
ui_click_new_chat ==
    /\ session.pc = "idle"
    /\ session' = [session EXCEPT !.pc = "new_chat"]
    /\ NoCall

\* render_chat_items: the button of a chat; its messages are fetched when the
\* mode has a backend and the session holds none
ui_select_chat(cid) ==
    /\ session.pc = "idle"
    /\ session.conversations[cid] # NoDoc
    /\ IF UsesBackend /\ session.conversations[cid].messages = <<>>
       THEN /\ UiCalls
            /\ get_conversation_call(cid, UiUser)
            /\ session' = [session EXCEPT
                               !.pc = "sync", !.did = "select",
                               !.conversations[cid] =
                                   IF last'.ret # None THEN last'.ret.value ELSE @,
                               !.current_id = cid]
       ELSE /\ session' = [session EXCEPT !.pc = "sync", !.current_id = cid]
            /\ NoCall

\* render_chat_items: "Rename", a name, "Save", up to the call of save_conversation
ui_rename(cid, new_title) ==
    /\ session.pc = "idle"
    /\ session.conversations[cid] # NoDoc
    /\ UiCalls
    /\ session' = [session EXCEPT !.pc = "save_then_sync", !.did = "rename",
                                  !.conversations[cid].title = new_title,
                                  !.save_id = cid]
    /\ NoCall

\* variant for C36: "Delete" without the new_chat() of a deleted current chat
ui_delete_without_new_chat(cid) ==
    /\ session.pc = "idle"
    /\ session.conversations[cid] # NoDoc
    /\ UiCalls
    /\ HISTORY_delete_conversation(cid)
    /\ session' = [session EXCEPT !.pc = "sync", !.did = "delete",
                                  !.conversations[cid] = NoDoc]

\* render_chat_items: "Delete"; deleting the current chat runs new_chat()
ui_delete(cid) ==
    /\ session.pc = "idle"
    /\ session.conversations[cid] # NoDoc
    /\ UiCalls
    /\ HISTORY_delete_conversation(cid)
    /\ session' = [session EXCEPT
                       !.pc = IF cid = session.current_id THEN "new_chat" ELSE "sync",
                       !.did = "delete",
                       !.conversations[cid] = NoDoc]

\* variant for C25: handle_chat_input that leaves the timestamps alone
stamp_nothing(convo) == convo

\* variant for C26: handle_chat_input stamping "created_at" where the code stamps
\* "last_modified"
stamp_created_at(convo) == [convo EXCEPT !.created_at = isoformat(now)]

\* convo["last_modified"] = datetime.now(timezone.utc).isoformat()
stamp_last_modified(convo) == [convo EXCEPT !.last_modified = isoformat(now)]

\* handle_chat_input(current_convo) with a prompt, up to its call of save_conversation
ui_send(prompt) ==
    /\ session.pc = "idle"
    /\ UiCalls
    /\ LET cid == session.current_id
           convo == session.conversations[cid]
           asked == Append(convo.messages,
                           [role |-> "user", content |-> prompt, time |-> isoformat(now)])
           reply == call_llm_stub(convo.model, prompt)
           answered == Append(asked, [role |-> "assistant", content |-> reply,
                                      time |-> isoformat(now)])
           sent == stamp_last_modified(
                       [convo EXCEPT
                           !.messages = answered,
                           !.title = IF @ = "New chat"
                                     THEN title_from_first_user_message(prompt) ELSE @])
       IN  /\ Len(convo.messages) + 2 <= MaxUiMsgs
           /\ session' = [session EXCEPT !.pc = "save_then_sync", !.did = "send",
                                         !.conversations[cid] = sent,
                                         !.save_id = cid]
    /\ NoCall

\* a day goes by while the page waits
UiDayPasses ==
    /\ session.pc = "idle"
    /\ now < MaxDay
    /\ now' = now + 1
    /\ last' = Event("day")
    /\ UNCHANGED <<config, threads, session, pool, since_commit, pg, redis, fs, local_save, nops,
                   faults_left, before>>

\* one TTL tick goes by while the page waits
UiTick ==
    /\ session.pc = "idle"
    /\ UiCalls
    /\ TickPasses

NextUi ==
    \/ ui_session_start
    \/ ui_new_chat
    \/ ui_sync_selected_model_to_current
    \/ ui_save_conversation
    \/ \E model \in models_list : ui_pick_model(model)
    \/ ui_click_new_chat
    \/ \E cid \in Ids : ui_select_chat(cid)
    \/ \E cid \in Ids, new_title \in NewTitles : ui_rename(cid, new_title)
    \/ \E cid \in Ids : ui_delete(cid)
    \/ \E prompt \in Prompts : ui_send(prompt)
    \/ UiDayPasses
    \/ UiTick

\* the page over each of the three stores; no PostgreSQL or Redis command fails
InitUi == Start(Modes, 0)

SpecUi == InitUi /\ [][NextUi]_vars

---------------------------------------------------------------------------
(* What the page hands to save_conversation *)

\* the conversation as stored when the latest call began: the file of mode "local",
\* the rows of the relational backend otherwise
StoredBefore(conversation_id) ==
    IF mode = "local" THEN _safe_read_json(before.fs, path_of(conversation_id))
    ELSE PostgreSQLBackend_get_conversation(before.pg, conversation_id, TheUser)

\* the conversation as stored now
StoredNow(conversation_id) ==
    IF mode = "local" THEN _safe_read_json(fs, path_of(conversation_id))
    ELSE PostgreSQLBackend_get_conversation(pg, conversation_id, TheUser)

IsPrefix(s, t) == Len(s) <= Len(t) /\ SubSeq(t, 1, Len(s)) = s

\* the page has just saved a conversation that was stored already
SavedStored ==
    /\ last.op = "save"
    /\ StoredBefore(last.conversation_id) # None

\* C24: the page only appends: in every sequence of its actions (session start,
\* select, rename, model change, send, new chat, delete), in every mode, the message
\* list of each save of a stored conversation begins with the stored message list.
C24_UiOnlyAppends ==
    SavedStored =>
        IsPrefix(StoredBefore(last.conversation_id).value.messages,
                 last.conversation.messages)

---------------------------------------------------------------------------
(* last_modified *)

\* the latest save changed the stored title, model or messages of a conversation
SaveChangedStored ==
    /\ SavedStored
    /\ last.ret = Done
    /\ LET was == StoredBefore(last.conversation_id).value
           is == StoredNow(last.conversation_id).value
       IN  \/ was.title # is.title
           \/ was.model # is.model
           \/ was.messages # is.messages

\* C25 as claimed: whenever a save changes the stored title, model or messages of a
\* conversation, the stored last_modified after the save is later than the stored
\* last_modified before it (the clock having moved since that one was stored).
C25_LastModifiedOnAnyChange ==
    (/\ SaveChangedStored
     /\ fromisoformat(StoredBefore(last.conversation_id).value.last_modified) < now) =>
        fromisoformat(StoredNow(last.conversation_id).value.last_modified)
            > fromisoformat(StoredBefore(last.conversation_id).value.last_modified)

\* handle_chat_input has just saved its conversation
SentAndSaved ==
    /\ SavedStored
    /\ last.ret = Done
    /\ session.did = "send"
    /\ session.pc # "save_then_sync"

\* C25 as amended: the save that follows a sent message stores the time of the send
\* as last_modified, which is not earlier than the stored one and is later when
\* the clock has moved since; the saves of a rename and of a model change leave the
\* stored last_modified as the session holds it.
C25_LastModifiedOnSend ==
    /\ SentAndSaved =>
        LET was == fromisoformat(StoredBefore(last.conversation_id).value.last_modified)
            is == fromisoformat(StoredNow(last.conversation_id).value.last_modified)
        IN  /\ is = now
            /\ is >= was
            /\ was < now => is > was
    /\ (SavedStored /\ last.ret = Done /\ session.did \in {"rename", "sync"}
            /\ session.save_id = "") =>
        StoredNow(last.conversation_id).value.last_modified
            = isoformat(fromisoformat(last.conversation.last_modified))

\* a message was sent a day after the chat was last modified, and a chat was renamed
C25_Witness ==
    /\ SentAndSaved
    /\ fromisoformat(StoredBefore(last.conversation_id).value.last_modified) < now
    /\ StoredBefore(last.conversation_id).value.messages # <<>>

---------------------------------------------------------------------------
(* created_at and last_modified of what is stored *)

\* the documents in the files of the flat-file store
StoredDocuments == {fs[f].doc : f \in {g \in FileNames : fs[g] # NoFile}}

\* the metadata entries of the cache
CachedMetadata == UNION {{e.member : e \in redis.zset[u]} : u \in Users}

---------------------------------------------------------------------------
(* Construction of the History Manager: ChatHistoryManager.__init__ step by *)
(* step.  constructor.backend and constructor.cache tell whether the        *)
(* PostgreSQLBackend (its connection pool) and the RedisBackend (its        *)
(* client) have been created.                                               *)

\* the modes passed to __init__: the three strategies and a mode that is none of them
ModeArgs == Modes \cup {"sqlite"}

\* variant for C27: __init__ that checks redis_host and redis_password only after it
\* has created the PostgreSQLBackend
checks_connection_string_only(m, connection_string, redis_host, redis_password) ==
    IF m = "local" THEN "done"
    ELSE IF m \in {"postgres", "redis"}
    THEN IF Not(connection_string) THEN "ValueError" ELSE "backend"
    ELSE "ValueError"

\* ChatHistoryManager.__init__, the branch of the mode up to the first backend it
\* creates: where the constructor goes next
checks(m, connection_string, redis_host, redis_password) ==
    IF m = "local" THEN "done"
    ELSE IF m = "postgres"
    THEN IF Not(connection_string) THEN "ValueError" ELSE "backend"
    ELSE IF m = "redis"
    THEN IF Not(connection_string) THEN "ValueError"
         ELSE IF Not(redis_host) \/ Not(redis_password) THEN "ValueError"
         ELSE "backend"
    ELSE "ValueError"

NotConstructing ==
    UNCHANGED <<pg, redis, fs, local_save, now, nops, faults_left, last, before, pool,
                since_commit, session, threads>>

\* self.mode = mode ... and the branch of the mode, up to PostgreSQLBackend(...)
init_mode ==
    /\ constructor.pc = "called"
    /\ LET next == checks(mode, constructor.connection_string, constructor.redis_host,
                          constructor.redis_password)
       IN  constructor' = [constructor EXCEPT
                               !.pc = IF next = "ValueError" THEN "raised" ELSE next,
                               !.raised = IF next = "ValueError" THEN next ELSE ""]
    /\ UNCHANGED <<mode, cache_available>>
    /\ NotConstructing

\* self.backend = PostgreSQLBackend(connection_string): the pool is created, or
\* RuntimeError
init_backend ==
    /\ constructor.pc = "backend"
    /\ \E connected \in BOOLEAN :
         constructor' =
             IF connected
             THEN [constructor EXCEPT !.pc = IF mode = "redis" THEN "cache" ELSE "done",
                                      !.backend = TRUE]
             ELSE [constructor EXCEPT !.pc = "raised", !.raised = "RuntimeError"]
    /\ UNCHANGED <<mode, cache_available>>
    /\ NotConstructing

\* self.cache = RedisBackend(...): the client is created and pinged; a failed ping
\* is logged and leaves redis_client None
init_cache ==
    /\ constructor.pc = "cache"
    /\ constructor' = [constructor EXCEPT !.pc = "done", !.cache = TRUE]
    /\ cache_available' \in BOOLEAN
    /\ UNCHANGED mode
    /\ NotConstructing

NextConstructor ==
    \/ init_mode
    \/ init_backend
    \/ init_cache

\* __init__ is called with a mode and string arguments that are None, "" or given
InitConstructor ==
    /\ mode \in ModeArgs
    /\ cache_available = FALSE
    /\ \E connection_string \in StringArgs, redis_host \in StringArgs,
          redis_password \in StringArgs :
         constructor = [pc |-> "called", connection_string |-> connection_string,
                        redis_host |-> redis_host, redis_password |-> redis_password,
                        backend |-> FALSE, cache |-> FALSE, raised |-> ""]
    /\ Fresh(0)

SpecConstructor == InitConstructor /\ [][NextConstructor]_vars

\* the arguments are a configuration error
ConfigurationError ==
    \/ mode \notin Modes
    \/ mode \in {"postgres", "redis"} /\ Not(constructor.connection_string)
    \/ mode = "redis" /\ (Not(constructor.redis_host) \/ Not(constructor.redis_password))

\* C27: construction selects exactly one of the three strategies and fails fast
\* otherwise: an unknown mode, a missing connection string in mode "postgres" or
\* "redis", or a missing cache host or password in mode "redis" raises ValueError
\* before any backend or cache connection is created; a constructed manager has no
\* backend and no cache in mode "local", a backend and no cache in mode "postgres",
\* and both in mode "redis".
C27_ConstructionSelectsStrategy ==
    /\ ConfigurationError =>
         /\ ~constructor.backend
         /\ ~constructor.cache
         /\ constructor.pc \in {"called", "raised"}
         /\ constructor.pc = "raised" => constructor.raised = "ValueError"
    /\ constructor.raised = "ValueError" => ConfigurationError
    /\ constructor.pc = "done" =>
         /\ mode \in Modes
         /\ constructor.backend = (mode \in {"postgres", "redis"})
         /\ constructor.cache = (mode = "redis")

\* mode "redis" with a connection string and a host but no password: ValueError,
\* and neither the pool nor the Redis client was created
C27_Witness ==
    /\ constructor.pc = "raised"
    /\ constructor.raised = "ValueError"
    /\ mode = "redis"
    /\ constructor.connection_string = Given
    /\ constructor.redis_host = Given
    /\ Not(constructor.redis_password)
    /\ ~constructor.backend

---------------------------------------------------------------------------
(* The read path of mode "redis" *)

\* the latest call was a list or a get of a user through an available cache
ReadThroughCache ==
    /\ UsesCache
    /\ last.op \in {"list", "get"}
    /\ last.user_id # NoUser

\* what the cache held for the latest list or get when the call began
CachedBefore ==
    IF last.op = "list"
    THEN RedisBackend_get_conversations_list(
             before.redis, last.user_id, HistoryDays, now, FALSE).ret
    ELSE RedisBackend_get_conversation_messages(
             before.redis, last.conversation_id, last.user_id, FALSE).ret

\* the name of the cache read, of the backend query and of the cache write of the
\* latest list or get
ReadCalls ==
    IF last.op = "list"
    THEN <<"cache.get_conversations_list", "backend.list_conversations",
           "cache.set_conversations_list">>
    ELSE <<"cache.get_conversation_messages", "backend.get_conversation",
           "cache.set_conversation_messages">>

\* the answers the relational backend had for the latest list or get
BackendAnswers ==
    IF last.op = "list"
    THEN {ReturnedList(c) : c \in PostgreSQLBackend_list_conversations(
                                      before.pg, last.user_id, HistoryDays, now)}
    ELSE {PostgreSQLBackend_get_conversation(
              before.pg, last.conversation_id, last.user_id)}

\* the cache holds what the latest list or get returned
CacheHoldsResult ==
    IF last.op = "list"
    THEN {e.member.conversation_id : e \in redis.zset[last.user_id]}
             = {last.ret.items[i][1] : i \in 1..Len(last.ret.items)}
    ELSE RolesAndContents(LRANGE(redis, msg_key(last.conversation_id)))
             = RolesAndContents(last.ret.value.messages)

\* the cache answered the latest list or get
CacheHit == CachedBefore # None /\ ~last.warned

\* C28: in mode "redis", a list or get that hits the cache returns the cached value
\* without any query to the relational backend; one that misses queries the backend
\* exactly once and, when the query has a result, writes it to the cache before it
\* returns.
C28_ReadPath ==
    ReadThroughCache =>
        IF CacheHit
        THEN /\ last.ret = CachedBefore
             /\ last.calls = <<ReadCalls[1]>>
        ELSE /\ last.ret \in BackendAnswers
             /\ SubSeq(last.calls, 1, 2) = <<ReadCalls[1], ReadCalls[2]>>
             /\ IF last.ret = None
                THEN last.calls = <<ReadCalls[1], ReadCalls[2]>>
                ELSE /\ last.calls = ReadCalls
                     /\ ~last.warned => CacheHoldsResult

\* a get missed the cache, which was written after the backend answered with a
\* conversation that has messages
C28_Witness ==
    /\ ReadThroughCache
    /\ last.op = "get"
    /\ CachedBefore = None
    /\ last.ret # None
    /\ last.ret.value.messages # <<>>
    /\ last.calls = ReadCalls
    /\ ~last.warned

---------------------------------------------------------------------------
(* Sliding TTL *)

\* the latest call went through an available cache
CalledThroughCache ==
    /\ UsesCache
    /\ last.op \in {"list", "get", "save", "delete"}
    /\ last.user_id # NoUser

\* the keys the latest call read as a hit
KeysHit ==
    IF ~(ReadThroughCache /\ CacheHit) THEN {}
    ELSE IF last.op = "list" THEN {conv_key(last.user_id)}
    ELSE {conv_key(last.user_id), msg_key(last.conversation_id)}

\* the keys the latest call wrote: those it left with other members or values, and
\* the metadata set of a save that logged no cache failure
KeysWritten ==
    {u \in Users : redis.zset[u] # before.redis.zset[u] /\ redis.zset[u] # {}}
        \cup {c \in Ids : redis.list[c] # before.redis.list[c] /\ redis.list[c] # <<>>}
        \cup (IF last.op = "save" /\ last.ret = Done /\ ~last.warned
              THEN {conv_key(last.user_id)} ELSE {})

\* C29: sliding TTL: every cache hit resets the expiry of the entry it read to the
\* full TTL (a list hit the user's metadata set, a get hit the message list and the
\* metadata set), every cache write (populate, metadata update, append, full message
\* write) leaves the written key with the full TTL, and no cached key exists without
\* an expiry.
C29_SlidingTtl ==
    /\ \A k \in Users \cup Ids : redis.ttl[k] # -1
    /\ \A u \in Users : (redis.zset[u] # {}) = (redis.ttl[u] > 0)
    /\ \A c \in Ids : (redis.list[c] # <<>>) = (redis.ttl[c] > 0)
    /\ CalledThroughCache =>
         \A k \in KeysHit \cup KeysWritten : redis.ttl[k] = RedisTtl

\* a get hit a conversation whose keys had less than the full TTL left
C29_Witness ==
    /\ CalledThroughCache
    /\ last.op = "get"
    /\ KeysHit = {conv_key(last.user_id), msg_key(last.conversation_id)}
    /\ \A k \in KeysHit : before.redis.ttl[k] < RedisTtl
    /\ \A k \in KeysHit : redis.ttl[k] = RedisTtl

---------------------------------------------------------------------------
(* Mode "redis" without its cache *)

\* the latest call was made in mode "redis" and the Redis ping had failed at
\* construction
CalledWithoutCache ==
    /\ mode = "redis"
    /\ ~cache_available
    /\ last.op \in {"list", "get", "save", "delete"}

\* what mode "postgres" does for the latest call: the one backend call, its result
\* and the tables it leaves (a write may raise at any of its statements)
AsPostgres ==
    IF last.user_id = NoUser
    THEN /\ last.calls = <<>>
         /\ last.ret = Raised("ValueError")
         /\ pg = before.pg
    ELSE IF last.op = "list"
    THEN /\ last.calls = <<"backend.list_conversations">>
         /\ last.ret \in BackendAnswers
         /\ pg = before.pg
    ELSE IF last.op = "get"
    THEN /\ last.calls = <<"backend.get_conversation">>
         /\ last.ret \in BackendAnswers
         /\ pg = before.pg
    ELSE IF last.op = "save"
    THEN /\ last.calls = <<"backend.save_conversation">>
         /\ \E fail_at \in 0..NumStatements(last.conversation) :
              LET saved == PostgreSQLBackend_save_conversation(
                               before.pg, last.conversation_id, last.user_id,
                               last.conversation, fail_at)
              IN  /\ pg = saved.db
                  /\ last.ret = IF saved.raised THEN Raised("backend") ELSE Done
    ELSE /\ last.calls = <<"backend.delete_conversation">>
         /\ \E fail \in BOOLEAN :
              LET deleted == PostgreSQLBackend_delete_conversation(
                                 before.pg, last.conversation_id, last.user_id, fail)
              IN  /\ pg = deleted.db
                  /\ last.ret = IF deleted.raised THEN Raised("backend") ELSE Done

\* C30: when the cache is unavailable at construction, mode "redis" behaves exactly
\* like mode "postgres": every list, get, save and delete makes the same calls of
\* the relational backend and returns the same results, and no call site attempts
\* a cache operation.
C30_UnavailableCacheIsPostgres ==
    /\ (mode = "redis" /\ ~cache_available) => redis = EmptyRedis
    /\ CalledWithoutCache =>
         /\ AsPostgres
         /\ ~last.warned
         /\ \A i \in 1..Len(last.calls) :
              last.calls[i] \in {"backend.list_conversations", "backend.get_conversation",
                                 "backend.save_conversation",
                                 "backend.delete_conversation"}

\* without the cache, a get returned a stored conversation with its messages
C30_Witness ==
    /\ CalledWithoutCache
    /\ last.op = "get"
    /\ last.ret # None
    /\ last.ret # Raised("ValueError")
    /\ last.ret.value.messages # <<>>
    /\ last.calls = <<"backend.get_conversation">>

---------------------------------------------------------------------------
(* Two calls at a time.  HISTORY is one object of the server process and    *)
(* every browser session runs main() on a thread of its own, so a call of   *)
(* one session runs between the statements of a call of another.  Mode      *)
(* "redis" with the cache available, no failing command; one user, one      *)
(* conversation.  The writer saves the chat as it grows; the reader lists   *)
(* the user's conversations or gets the conversation.  A step is one        *)
(* command of Redis, one executed pipeline (MULTI/EXEC) or one method of    *)
(* the relational backend (one transaction); a cache read that only reads   *)
(* (lrange, zrevrange and the expire of a hit) is one step.                 *)

\* calls the two threads begin per behaviour
MaxThreadOps == 3

Writer == threads.writer
Reader == threads.reader

ThreadCalls == nops < MaxThreadOps

\* no call is in progress
ThreadsIdle == Writer.pc = "idle" /\ Reader.pc = "idle"

\* a step of a thread leaves the rest alone
ThreadStep ==
    UNCHANGED <<config, session, pool, since_commit, fs, local_save, now, faults_left>>

\* a thread begins a call: last.calls are the calls begun since no call was in
\* progress, in order, with the backend query of a get that missed;
\* last.conversation is the document of the save among them, and before the stores
\* as the first of them found them
Began(op, conversation) ==
    /\ nops' = nops + 1
    /\ before' = IF ThreadsIdle THEN Stores ELSE before
    /\ last' = [op |-> "threads", conversation_id |-> TheChat, user_id |-> TheUser,
                conversation |-> IF op = "save" THEN conversation
                                 ELSE IF ThreadsIdle THEN NoDoc ELSE last.conversation,
                ret |-> [kind |-> "running"], warned |-> FALSE,
                calls |-> (IF ThreadsIdle THEN <<>> ELSE last.calls) \o <<op>>]

\* a thread goes on with its call
GoesOn == UNCHANGED <<nops, last, before>>

\* save_conversation, mode "redis": self.backend.save_conversation(...)
thread_save_backend(conversation) ==
    /\ ThreadCalls
    /\ Writer.pc = "idle"
    /\ pg' = PostgreSQLBackend_save_conversation(pg, TheChat, TheUser, conversation, 0).db
    /\ threads' = [threads EXCEPT !.writer = [pc |-> "zrevrange", conversation |-> conversation,
                                              read |-> None, redis_msg_count |-> 0]]
    /\ Began("save", conversation)
    /\ UNCHANGED redis
    /\ ThreadStep

\* update_conversation_metadata: all_convos = self.redis_client.zrevrange(conv_key, 0, -1)
\* and the loop that finds the entry to remove
thread_save_zrevrange ==
    /\ Writer.pc = "zrevrange"
    /\ threads' = [threads EXCEPT
                      !.writer.read = FindMeta(ZREVRANGE(redis, conv_key(TheUser)), TheChat),
                      !.writer.pc = "execute"]
    /\ UNCHANGED <<pg, redis>>
    /\ GoesOn
    /\ ThreadStep

\* update_conversation_metadata: pipeline.execute() of zrem (when an entry was found),
\* zadd and expire
thread_save_execute ==
    /\ Writer.pc = "execute"
    /\ LET removed == IF Writer.read = None THEN redis
                      ELSE ZREM(redis, conv_key(TheUser), Writer.read.value)
           added == ZADD(removed, conv_key(TheUser), json_meta(TheChat, Writer.conversation),
                         fromisoformat(Writer.conversation.last_modified))
       IN  redis' = EXPIRE(added, conv_key(TheUser), RedisTtl)
    /\ threads' = [threads EXCEPT !.writer.pc = "llen", !.writer.read = None]
    /\ UNCHANGED pg
    /\ GoesOn
    /\ ThreadStep

\* save_conversation: redis_msg_count = self.cache.redis_client.llen(...) or 0
thread_save_llen ==
    /\ Writer.pc = "llen"
    /\ threads' = [threads EXCEPT !.writer.redis_msg_count = LLEN(redis, msg_key(TheChat)),
                                  !.writer.pc = "messages"]
    /\ UNCHANGED <<pg, redis>>
    /\ GoesOn
    /\ ThreadStep

\* save_conversation: append_messages of the new messages, or set_conversation_messages
\* when nothing is new and nothing was cached; the call returns
thread_save_messages ==
    /\ Writer.pc = "messages"
    /\ LET redis_msg_count == Writer.redis_msg_count
           new_messages == MessagesFrom(Writer.conversation.messages, redis_msg_count)
       IN  redis' = IF new_messages # <<>>
                    THEN RedisBackend_append_messages(
                             redis, TheChat, new_messages, redis_msg_count, FALSE).redis
                    ELSE IF redis_msg_count = 0
                    THEN RedisBackend_set_conversation_messages(
                             redis, TheChat, Writer.conversation.messages, FALSE).redis
                    ELSE redis
    /\ threads' = [threads EXCEPT !.writer = NoThread]
    /\ UNCHANGED pg
    /\ GoesOn
    /\ ThreadStep

\* get_conversation, mode "redis": cached = self.cache.get_conversation_messages(...);
\* a hit returns
thread_get_cache ==
    /\ ThreadCalls
    /\ Reader.pc = "idle"
    /\ LET cached == RedisBackend_get_conversation_messages(redis, TheChat, TheUser, FALSE)
       IN  /\ redis' = cached.redis
           /\ threads' = [threads EXCEPT !.reader.pc = IF cached.ret # None THEN "idle"
                                                       ELSE "get_backend"]
    /\ Began("get", NoDoc)
    /\ UNCHANGED pg
    /\ ThreadStep

\* get_conversation: conversation = self.backend.get_conversation(...); None returns
thread_get_backend ==
    /\ Reader.pc = "get_backend"
    /\ LET conversation == PostgreSQLBackend_get_conversation(pg, TheChat, TheUser)
       IN  threads' = [threads EXCEPT
                          !.reader.read = conversation,
                          !.reader.pc = IF conversation # None THEN "get_populate" ELSE "idle"]
    /\ last' = [last EXCEPT !.calls = Append(@, "backend.get_conversation")]
    /\ UNCHANGED <<pg, redis, nops, before>>
    /\ ThreadStep

\* get_conversation: self.cache.set_conversation_messages(...); the call returns
thread_get_populate ==
    /\ Reader.pc = "get_populate"
    /\ redis' = RedisBackend_set_conversation_messages(
                    redis, TheChat, Reader.read.value.messages, FALSE).redis
    /\ threads' = [threads EXCEPT !.reader = NoThread]
    /\ UNCHANGED pg
    /\ GoesOn
    /\ ThreadStep

\* list_conversations, mode "redis": cached = self.cache.get_conversations_list(...);
\* a hit returns
thread_list_cache ==
    /\ ThreadCalls
    /\ Reader.pc = "idle"
    /\ LET cached == RedisBackend_get_conversations_list(
                         redis, TheUser, HistoryDays, now, FALSE)
       IN  /\ redis' = cached.redis
           /\ threads' = [threads EXCEPT !.reader.pc = IF cached.ret # None THEN "idle"
                                                       ELSE "list_backend"]
    /\ Began("list", NoDoc)
    /\ UNCHANGED pg
    /\ ThreadStep

\* list_conversations: conversations = self.backend.list_conversations(...)
thread_list_backend ==
    /\ Reader.pc = "list_backend"
    /\ \E conversations \in PostgreSQLBackend_list_conversations(
                                pg, TheUser, HistoryDays, now) :
         threads' = [threads EXCEPT !.reader.read = ReturnedList(conversations),
                                    !.reader.pc = "list_populate"]
    /\ UNCHANGED <<pg, redis>>
    /\ GoesOn
    /\ ThreadStep

\* list_conversations: self.cache.set_conversations_list(...); the call returns
thread_list_populate ==
    /\ Reader.pc = "list_populate"
    /\ redis' = RedisBackend_set_conversations_list(
                    redis, TheUser, Reader.read.items, FALSE).redis
    /\ threads' = [threads EXCEPT !.reader = NoThread]
    /\ UNCHANGED pg
    /\ GoesOn
    /\ ThreadStep

\* a TTL tick, which is long against the steps of a call, passes between calls
ThreadTick == ThreadsIdle /\ TickPasses

NextThreads ==
    \/ \E conversation \in OwnerDocs : thread_save_backend(conversation)
    \/ thread_save_zrevrange
    \/ thread_save_execute
    \/ thread_save_llen
    \/ thread_save_messages
    \/ thread_get_cache
    \/ thread_get_backend
    \/ thread_get_populate
    \/ thread_list_cache
    \/ thread_list_backend
    \/ thread_list_populate
    \/ ThreadTick

InitThreads == Start({"redis"}, 0) /\ cache_available = TRUE

SpecThreads == InitThreads /\ [][NextThreads]_vars

\* the conversation ids of the entries of a user's cached metadata set, one per entry
EntriesOf(user_id, conversation_id) ==
    {e \in redis.zset[user_id] : e.member.conversation_id = conversation_id}

\* C31: the cached metadata set of a user holds at most one entry per conversation
\* id in every reachable state, also when a list that missed and populates the set
\* from the backend runs between the steps of a save of the same conversation.
C31_OneEntryPerConversation ==
    \A user_id \in Users, conversation_id \in Ids :
        Cardinality(EntriesOf(user_id, conversation_id)) <= 1

---------------------------------------------------------------------------
(* The append optimization *)

\* the cached form of a message list: sequence numbers 0..n-1
CachedForm(messages) == [i \in 1..Len(messages) |-> msg_with_seq(i - 1, messages[i])]

\* the latest call is a save through the available cache that returned and logged no
\* cache failure
SavedInCache ==
    /\ UsesCache
    /\ last.op = "save"
    /\ last.ret = Done
    /\ ~last.warned

\* k: the number of messages cached for the conversation when the save began
CachedCount == Len(before.redis.list[last.conversation_id])

\* the cached list was the first k messages of the saved document
CachedIsPrefix ==
    /\ CachedCount <= Len(last.conversation.messages)
    /\ before.redis.list[last.conversation_id]
           = CachedForm(SubSeq(last.conversation.messages, 1, CachedCount))

\* the cache writes of the message list the latest save made
MessageWrites ==
    SelectSeq(last.calls, LAMBDA call : call \in {"cache.append_messages",
                                                  "cache.set_conversation_messages"})

\* C32: in mode "redis", when the cached message list of the conversation holds k
\* messages equal to the first k of the n messages of the saved document, a save
\* with n > k appends exactly the messages k..n-1 with the sequence numbers k..n-1
\* (with k = 0 that is the full list), a save with n = k > 0 writes no message, and
\* the cached list after the save is the document's messages numbered 0..n-1.
C32_AppendOptimization ==
    (SavedInCache /\ CachedIsPrefix) =>
        LET messages == last.conversation.messages
            k == CachedCount
            n == Len(messages)
            cached == redis.list[last.conversation_id]
        IN  /\ cached = CachedForm(messages)
            /\ n > k =>
                 /\ MessageWrites = <<"cache.append_messages">>
                 /\ SubSeq(cached, 1, k) = before.redis.list[last.conversation_id]
                 /\ \A i \in (k + 1)..n : cached[i].sequence_number = i - 1
            /\ (n = k /\ k > 0) =>
                 /\ MessageWrites = <<>>
                 /\ redis.ttl[msg_key(last.conversation_id)]
                        = before.redis.ttl[msg_key(last.conversation_id)]
            /\ n = 0 => MessageWrites = <<"cache.set_conversation_messages">>

\* a save of two messages found the first one cached and appended the second
C32_Witness ==
    /\ SavedInCache
    /\ CachedIsPrefix
    /\ CachedCount = 1
    /\ Len(last.conversation.messages) = 2
    /\ MessageWrites = <<"cache.append_messages">>
    /\ redis.list[last.conversation_id][2].sequence_number = 1

---------------------------------------------------------------------------
(* A save by a user who does not own the conversation *)

\* the latest call is a save, by a user, of a conversation that another user owned
SavedByOther ==
    /\ UsesBackend
    /\ last.op = "save"
    /\ last.user_id # NoUser
    /\ ConversationRowsOf(before.pg, last.conversation_id) # {}
    /\ \A r \in ConversationRowsOf(before.pg, last.conversation_id) :
         r.user_client_id # last.user_id

\* C33: in modes "postgres" and "redis", save(id, doc, B) on a conversation that
\* exists and is owned by another user A changes nothing A can observe: get(id, A)
\* returns the same title, model and messages as before the save, and the cached
\* message list of id is as it was.
C33_SaveByOtherChangesNothing ==
    SavedByOther =>
        /\ \A r \in ConversationRowsOf(before.pg, last.conversation_id) :
             SameConversation(
                 GetBefore(last.conversation_id, r.user_client_id),
                 GetNow(redis, last.conversation_id, r.user_client_id))
        /\ LRANGE(redis, msg_key(last.conversation_id))
               = LRANGE(before.redis, msg_key(last.conversation_id))

---------------------------------------------------------------------------
(* A save and a get of one conversation at a time *)

\* one save and one get that missed have run, one overlapping the other, on a
\* conversation with no cached messages, and both have returned
SaveAndGetOverlapped ==
    /\ ThreadsIdle
    /\ last.op = "threads"
    /\ Len(last.calls) = 3
    /\ {last.calls[i] : i \in 1..3} = {"save", "get", "backend.get_conversation"}
    /\ LRANGE(before.redis, msg_key(TheChat)) = <<>>

\* no sequence number occurs twice in the cached message list
NoMessageTwice(cached) ==
    \A i, j \in 1..Len(cached) :
        cached[i].sequence_number = cached[j].sequence_number => i = j

\* C34: in mode "redis" with one writer and one concurrent reader of a conversation,
\* for every interleaving of the steps of a save (backend commit, read of the cached
\* count, append) with the steps of a get that misses (backend read, delete and
\* rewrite of the cached list), the cached message list at the end contains no
\* message twice and equals the message list the backend has committed.
C34_InterleavedSaveAndGet ==
    SaveAndGetOverlapped =>
        LET cached == LRANGE(redis, msg_key(TheChat))
            stored == PostgreSQLBackend_get_conversation(pg, TheChat, TheUser)
        IN  /\ NoMessageTwice(cached)
            /\ stored # None
            /\ RolesAndContents(cached) = RolesAndContents(stored.value.messages)

---------------------------------------------------------------------------
(* A get after a get that missed *)

\* the latest call is a get through the available cache that missed, loaded a
\* conversation with messages from the relational backend and wrote them to the cache
GotFromBackend ==
    /\ UsesCache
    /\ last.op = "get"
    /\ last.user_id # NoUser
    /\ last.calls = <<"cache.get_conversation_messages", "backend.get_conversation",
                      "cache.set_conversation_messages">>
    /\ last.ret # None
    /\ last.ret.value.messages # <<>>
    /\ ~last.warned

\* the same get, called again now, no command failing
GetAgain ==
    GetOutcome(pg, redis, fs, last.conversation_id, last.user_id, FALSE, FALSE)

\* C35: in mode "redis" with an available cache, after a get(id, user) that missed
\* and loaded a conversation with at least one message from the relational backend,
\* the same get made next, with no expiry in between, is a cache hit and makes no
\* query of the relational backend, also when the user's metadata set was empty or
\* did not hold id at the first get.
C35_GetAfterMissHits ==
    GotFromBackend =>
        /\ GetAgain.ret # None
        /\ GetAgain.calls = <<"cache.get_conversation_messages">>

---------------------------------------------------------------------------
(* The current chat of a session *)

\* st.session_state.current_id in st.session_state.conversations
CurrentIsKey(state) ==
    /\ state.current_id \in Ids
    /\ state.conversations[state.current_id] # NoDoc

\* ensure_state or the handler of a widget has run to its end (new_chat() included)
HandlerDone(state) == state.pc \notin {"closed", "new_chat"}

\* the step is the "Delete" of the chat
DeleteClicked(cid) ==
    /\ session.pc = "idle"
    /\ session'.did = "delete"
    /\ last'.op = "delete"
    /\ last'.conversation_id = cid
    /\ nops' = nops + 1

\* the step is the return of the save_conversation of new_chat()
NewChatSaved ==
    /\ session.pc = "save_then_sync"
    /\ session.did = "new_chat"
    /\ session'.pc = "sync"

\* the conversation as stored in the files dir (mode "local") or the tables db
StoredIn(dir, db, conversation_id) ==
    IF mode = "local" THEN _safe_read_json(dir, path_of(conversation_id))
    ELSE PostgreSQLBackend_get_conversation(db, conversation_id, TheUser)

\* the current chat is new and empty, and stored as such
BrandNewCurrent(state, stored) ==
    /\ CurrentIsKey(state)
    /\ state.conversations[state.current_id].title = "New chat"
    /\ state.conversations[state.current_id].messages = <<>>
    /\ stored # None
    /\ stored.value.title = "New chat"
    /\ stored.value.messages = <<>>

\* C36: after ensure_state and after every action of the page (new chat, select,
\* rename, delete) the current conversation id is a key of the session's conversation
\* map; deleting the current chat always runs new_chat(), which creates and stores a
\* brand-new empty conversation that becomes the current one, and deleting another
\* chat leaves the current id as it was.
C36_CurrentChatExists ==
    [][/\ HandlerDone(session') => CurrentIsKey(session')
       /\ \A cid \in Ids :
            DeleteClicked(cid) =>
                /\ session'.conversations[cid] = NoDoc
                /\ IF cid = session.current_id
                   THEN session'.pc = "new_chat"
                   ELSE /\ session'.current_id = session.current_id
                        /\ HandlerDone(session')
       /\ NewChatSaved =>
            /\ StoredNow(session'.current_id) = None
            /\ last'.op = "save"
            /\ last'.conversation_id = session'.current_id
            /\ BrandNewCurrent(session', StoredIn(fs', pg', session'.current_id))]_vars

\* the current chat has been deleted while the session holds another chat, and
\* new_chat() runs next
C36_Witness ==
    /\ session.pc = "new_chat"
    /\ session.did = "delete"
    /\ last.op = "delete"
    /\ last.conversation_id = session.current_id
    /\ session.conversations[session.current_id] = NoDoc
    /\ \E cid \in Ids : session.conversations[cid] # NoDoc

====
